---- MODULE Spec2Model ----
(***************************************************************************)
(* The markup lexer of packages/compiler/src/ml_parser/lexer.ts as a state *)
(* machine: one tokenizer instance (_Tokenizer) running over one source    *)
(* text with one option set.  Every iteration of the driver loop of        *)
(* _Tokenizer.tokenize() is one step; the handlers it calls are operators  *)
(* over the record of the tokenizer's fields.  Strings are sequences of    *)
(* UTF-16 code units, characters are their codes.                          *)
(***************************************************************************)
EXTENDS Integers, Sequences, FiniteSets, TLC

RECURSIVE call(_, _, _)

(***************************************************************************)
(* chars.ts: the character codes the lexer names, and the classes         *)
(***************************************************************************)
chars_EOF == 0

chars_BSPACE == 8

chars_TAB == 9

chars_LF == 10

chars_VTAB == 11

chars_FF == 12

chars_CR == 13

chars_BANG == 33

chars_DQ == 34

chars_HASH == 35

chars_AMPERSAND == 38

chars_SQ == 39

chars_COMMA == 44

chars_MINUS == 45

chars_SLASH == 47

chars_COLON == 58

chars_SEMICOLON == 59

chars_LT == 60

chars_EQ == 61

chars_GT == 62

chars_LBRACKET == 91

chars_BACKSLASH == 92

chars_LBRACE == 123

chars_RBRACE == 125

chars_d0 == 48

chars_d9 == 57

chars_A == 65

chars_X == 88

chars_Z == 90

chars_a == 97

chars_b == 98

chars_f == 102

chars_n == 110

chars_r == 114

chars_t == 116

chars_u == 117

chars_v == 118

chars_x == 120

chars_z == 122

isWhitespace(code) ==
  (code >= chars_TAB /\ code <= 32 (* $SPACE *)) \/ code = 160 (* $NBSP *)

isDigit(code) == chars_d0 <= code /\ code <= chars_d9

isAsciiLetter(code) ==
  (code >= chars_a /\ code <= chars_z) \/ (code >= chars_A /\ code <= chars_Z)

isAsciiHexDigit(code) ==
  (code >= chars_a /\ code <= chars_f) \/ (code >= chars_A /\ code <= 70 (* $F *))
    \/ isDigit(code)

isNewLine(code) == code = chars_LF \/ code = chars_CR

isOctalDigit(code) == chars_d0 <= code /\ code <= 55 (* $7 *)

isQuote(code) == code \in {chars_SQ, chars_DQ, 96 (* $BT *)}

(***************************************************************************)
(* The JavaScript built-ins the lexer calls                                *)
(***************************************************************************)
\* String.fromCodePoint: one code unit, a surrogate pair above 0xFFFF, and a
\* RangeError (ok = FALSE) outside 0..0x10FFFF.
fromCodePoint(cp) ==
  IF cp < 0 \/ cp > 1114111 THEN [ok |-> FALSE, str |-> <<>>]
  ELSE IF cp <= 65535 THEN [ok |-> TRUE, str |-> <<cp>>]
  ELSE [ok |-> TRUE,
        str |-> <<55296 + ((cp - 65536) \div 1024), 56320 + ((cp - 65536) % 1024)>>]

\* String.fromCharCode: ToUint16 of the number (NaN gives 0).
fromCharCode(num) ==
  IF num.nan THEN <<0>> ELSE <<num.val % 65536>>

digitValue(code) ==
  IF isDigit(code) THEN code - chars_d0
  ELSE IF code >= chars_a /\ code <= chars_z THEN code - chars_a + 10
  ELSE IF code >= chars_A /\ code <= chars_Z THEN code - chars_A + 10
  ELSE 36

RECURSIVE parseDigits(_, _, _, _, _)
parseDigits(str, i, radix, acc, seen) ==
  IF i <= Len(str) /\ digitValue(str[i]) < radix
  THEN parseDigits(str, i + 1, radix, acc * radix + digitValue(str[i]), TRUE)
  ELSE [nan |-> ~seen, val |-> acc]

RECURSIVE skipStrWhiteSpace(_, _)
skipStrWhiteSpace(str, i) ==
  IF i <= Len(str) /\ str[i] \in {9, 10, 11, 12, 13, 32, 160, 8232, 8233, 65279}
  THEN skipStrWhiteSpace(str, i + 1) ELSE i

\* parseInt(str, radix) for radix 8, 10 and 16: leading white space, a sign, for
\* radix 16 an optional 0x, then the longest run of digits; NaN when there is none.
parseInt(str, radix) ==
  LET i0 == skipStrWhiteSpace(str, 1)
      neg == i0 <= Len(str) /\ str[i0] = 45
      i1 == IF i0 <= Len(str) /\ str[i0] \in {43, 45} THEN i0 + 1 ELSE i0
      i2 == IF radix = 16 /\ i1 + 1 <= Len(str) /\ str[i1] = chars_d0
                 /\ str[i1 + 1] \in {chars_x, chars_X}
            THEN i1 + 2 ELSE i1
      r == parseDigits(str, i2, radix, 0, FALSE)
  IN IF r.nan THEN r ELSE [nan |-> FALSE, val |-> IF neg THEN 0 - r.val ELSE r.val]

\* String.prototype.substring (arguments clamped and swapped when reversed).
substring(str, from, to) ==
  LET lo == IF from < to THEN from ELSE to
      hi == IF from < to THEN to ELSE from
      l == IF lo > Len(str) THEN Len(str) ELSE lo
      h == IF hi > Len(str) THEN Len(str) ELSE hi
  IN SubSeq(str, l + 1, h)

RECURSIVE replaceCrOrCrLf(_, _)
\* content.replace(/\r\n?/g, '\n')
replaceCrOrCrLf(str, i) ==
  IF i > Len(str) THEN <<>>
  ELSE IF str[i] = chars_CR
       THEN <<chars_LF>> \o replaceCrOrCrLf(str,
                IF i + 1 <= Len(str) /\ str[i + 1] = chars_LF THEN i + 2 ELSE i + 1)
       ELSE <<str[i]>> \o replaceCrOrCrLf(str, i + 1)

RECURSIVE trimStart(_)
trimStart(str) ==
  IF str # <<>> /\ Head(str) \in {9, 10, 11, 12, 13, 32, 160, 8232, 8233, 65279}
  THEN trimStart(Tail(str)) ELSE str

RECURSIVE trimEnd(_)
trimEnd(str) ==
  IF str # <<>> /\ str[Len(str)] \in {9, 10, 11, 12, 13, 32, 160, 8232, 8233, 65279}
  THEN trimEnd(SubSeq(str, 1, Len(str) - 1)) ELSE str

\* String.prototype.trim
trim(str) == trimEnd(trimStart(str))

(***************************************************************************)
(* PlainCharacterCursor and EscapedCharacterCursor.  A cursor is           *)
(* [state, internalState]; the text, its end position and the cursor       *)
(* variant are read from `src` (fields input, end, escapedString).  A      *)
(* cursor operation yields [cur, err, ecur]: the cursor afterwards, the    *)
(* message of the CursorError it threw ("" for none) and that error's      *)
(* cursor.                                                                  *)
(***************************************************************************)
charAt(src, pos) == src.input[pos + 1]

updatePeek(src, state) ==
  [state EXCEPT !.peek = IF state.offset >= src.end THEN chars_EOF
                         ELSE charAt(src, state.offset)]

\* advanceState, were it to count a column for a carriage return too
advanceStateCountingCr(src, state) ==
  IF state.offset >= src.end THEN [st |-> state, thrown |-> TRUE]
  ELSE LET currentChar == charAt(src, state.offset)
           moved ==
             [state EXCEPT
                !.line = IF currentChar = chars_LF THEN @ + 1 ELSE @,
                !.column = IF currentChar = chars_LF THEN 0 ELSE @ + 1,
                !.offset = @ + 1]
       IN [st |-> updatePeek(src, moved), thrown |-> FALSE]

\* advanceState: [st, thrown]
advanceState(src, state) ==
  IF state.offset >= src.end THEN [st |-> state, thrown |-> TRUE]
  ELSE LET currentChar == charAt(src, state.offset)
           moved ==
             [state EXCEPT
                !.line = IF currentChar = chars_LF THEN @ + 1 ELSE @,
                !.column = IF currentChar = chars_LF THEN 0
                           ELSE IF ~isNewLine(currentChar) THEN @ + 1 ELSE @,
                !.offset = @ + 1]
       IN [st |-> updatePeek(src, moved), thrown |-> FALSE]

CursorOk(cur) == [cur |-> cur, err |-> "", ecur |-> cur]

CursorThrow(cur, msg, ecur) == [cur |-> cur, err |-> msg, ecur |-> ecur]

\* advanceState(this.internalState) inside processEscapeSequence; a failure
\* leaves this.state = the internal state and throws with this cursor.
advanceInternal(src, r) ==
  IF r.err # "" THEN r
  ELSE LET a == call("advanceState", src, <<r.cur.internalState>>)
       IN IF a.thrown
          THEN LET c == [state |-> r.cur.internalState,
                         internalState |-> r.cur.internalState]
               IN CursorThrow(c, "Unexpected character \"EOF\"", c)
          ELSE CursorOk([r.cur EXCEPT !.internalState = a.st])

decodeHexDigits(src, r, start, length) ==
  IF r.err # "" THEN r
  ELSE LET from == start.internalState.offset
           hex == substring(src.input, from, from + length)
           charCode == parseInt(hex, 16)
       IN IF ~charCode.nan
          THEN CursorOk([r.cur EXCEPT !.state.peek = charCode.val])
          ELSE CursorThrow(r.cur, "Invalid hexadecimal escape sequence",
                           [start EXCEPT !.state = start.internalState])

RECURSIVE advanceToRBrace(_, _, _)
\* while (peek() !== $RBRACE) { advanceState(internalState); length++ }
advanceToRBrace(src, r, length) ==
  IF r.err # "" THEN [r |-> r, length |-> length]
  ELSE IF r.cur.internalState.peek # chars_RBRACE
       THEN call("advanceToRBrace", src, <<call("advanceInternal", src, <<r>>), length + 1>>)
       ELSE [r |-> r, length |-> length]

RECURSIVE advanceOctal(_, _, _, _, _)
\* the octal loop: [cur, previous, octal]
advanceOctal(src, cur, previous, octal, length) ==
  IF isOctalDigit(cur.internalState.peek) /\ length < 3
  THEN call("advanceOctal", src, <<call("advanceInternal", src, <<CursorOk(cur)>>).cur, cur, Append(octal, cur.internalState.peek), length + 1>>)
  ELSE [cur |-> cur, previous |-> previous, octal |-> octal]

processEscapeSequence(src, cur) ==
  IF cur.internalState.peek # chars_BACKSLASH THEN CursorOk(cur)
  ELSE
    LET r1 == call("advanceInternal", src, <<CursorOk([state |-> cur.state, internalState |-> cur.state])>>)
        p == r1.cur.internalState.peek
        ctrl(code) == CursorOk([r1.cur EXCEPT !.state.peek = code])
    IN IF r1.err # "" THEN r1
       ELSE IF p = chars_n THEN ctrl(chars_LF)
       ELSE IF p = chars_r THEN ctrl(chars_CR)
       ELSE IF p = chars_v THEN ctrl(chars_VTAB)
       ELSE IF p = chars_t THEN ctrl(chars_TAB)
       ELSE IF p = chars_b THEN ctrl(chars_BSPACE)
       ELSE IF p = chars_f THEN ctrl(chars_FF)
       ELSE IF p = chars_u THEN
         LET r2 == call("advanceInternal", src, <<r1>>)
         IN IF r2.err # "" THEN r2
            ELSE IF r2.cur.internalState.peek = chars_LBRACE THEN
              LET r3 == call("advanceInternal", src, <<r2>>)
                  w == call("advanceToRBrace", src, <<r3, 0>>)
              IN call("decodeHexDigits", src, <<w.r, r3.cur, w.length>>)
            ELSE
              LET r5 == call("advanceInternal", src, <<call("advanceInternal", src, <<call("advanceInternal", src, <<r2>>)>>)>>)
              IN call("decodeHexDigits", src, <<r5, r2.cur, 4>>)
       ELSE IF p = chars_x THEN
         LET r2 == call("advanceInternal", src, <<r1>>)
             r3 == call("advanceInternal", src, <<r2>>)
         IN call("decodeHexDigits", src, <<r3, r2.cur, 2>>)
       ELSE IF isOctalDigit(p) THEN
         LET o == call("advanceOctal", src, <<r1.cur, r1.cur, <<>>, 0>>)
         IN CursorOk([state |-> [o.cur.state EXCEPT !.peek = parseInt(o.octal, 8).val],
                      internalState |-> o.previous.internalState])
       ELSE IF isNewLine(p) THEN
         LET r2 == call("advanceInternal", src, <<r1>>)
         IN IF r2.err # "" THEN r2
            ELSE CursorOk([state |-> r2.cur.internalState,
                           internalState |-> r2.cur.internalState])
       ELSE CursorOk([r1.cur EXCEPT !.state.peek = p])

\* CharacterCursor.advance()
cursorAdvance(src, cur) ==
  IF src.escapedString
  THEN LET a == call("advanceState", src, <<cur.internalState>>)
           c == [state |-> a.st, internalState |-> a.st]
       IN IF a.thrown THEN CursorThrow(c, "Unexpected character \"EOF\"", c)
          ELSE call("processEscapeSequence", src, <<c>>)
  ELSE LET a == call("advanceState", src, <<cur.state>>)
           c == [state |-> a.st, internalState |-> a.st]
       IN IF a.thrown THEN CursorThrow(c, "Unexpected character \"EOF\"", c)
          ELSE CursorOk(c)

\* new ...CharacterCursor(file, range) followed by init()
cursorInit(src, range) ==
  LET st == updatePeek(src, [peek |-> 0 - 1, offset |-> range.startPos,
                             line |-> range.startLine, column |-> range.startCol])
      c == [state |-> st, internalState |-> st]
  IN IF src.escapedString THEN call("processEscapeSequence", src, <<c>>) ELSE CursorOk(c)

charsLeft(src, cur) == src.end - cur.state.offset

diff(cur, other) == cur.state.offset - other.state.offset

locationFromCursor(cur) ==
  [offset |-> cur.state.offset, line |-> cur.state.line, col |-> cur.state.column]

RECURSIVE skipLeadingTrivia(_, _, _, _)
\* the trimming loop of getSpan, were it to walk over whitespace whatever the
\* leading trivia configured
skipLeadingWhitespace(src, cur, r, leadingTriviaCodePoints) ==
  IF r.err # "" THEN r
  ELSE IF diff(cur, r.cur) > 0 /\ isWhitespace(r.cur.state.peek)
       THEN call("skipLeadingTrivia", src, <<cur, call("cursorAdvance", src, <<r.cur>>), leadingTriviaCodePoints>>)
       ELSE r

\* the loop of getSpan that walks start over the leading trivia
skipLeadingTrivia(src, cur, r, leadingTriviaCodePoints) ==
  IF r.err # "" THEN r
  ELSE IF diff(cur, r.cur) > 0 /\ r.cur.state.peek \in leadingTriviaCodePoints
       THEN call("skipLeadingTrivia", src, <<cur, call("cursorAdvance", src, <<r.cur>>), leadingTriviaCodePoints>>)
       ELSE r

\* getSpan(start, leadingTriviaCodePoints): [span, err, ecur]; without trivia the
\* set is empty and the start is not moved
getSpan(src, cur, start, leadingTriviaCodePoints) ==
  LET r == call("skipLeadingTrivia", src, <<cur, CursorOk(start), leadingTriviaCodePoints>>)
  IN [span |-> [start |-> locationFromCursor(r.cur),
                end |-> locationFromCursor(cur),
                fullStart |-> locationFromCursor(start)],
      err |-> r.err, ecur |-> r.ecur]

RECURSIVE escapedGetChars(_, _, _, _)
\* EscapedCharacterCursor.getChars: [str, exc, r]; exc is "" or the exception
escapedGetChars(src, cur, cursor, acc) ==
  IF cursor.internalState.offset < cur.internalState.offset
  THEN LET ch == fromCodePoint(cursor.state.peek)
           r == call("cursorAdvance", src, <<cursor>>)
       IN IF ~ch.ok THEN [str |-> acc, exc |-> "RangeError", r |-> CursorOk(cursor)]
          ELSE IF r.err # "" THEN [str |-> acc, exc |-> "CursorError", r |-> r]
          ELSE call("escapedGetChars", src, <<cur, r.cur, acc \o ch.str>>)
  ELSE [str |-> acc, exc |-> "", r |-> CursorOk(cursor)]

\* CharacterCursor.getChars(start)
cursorGetChars(src, cur, start) ==
  IF src.escapedString THEN call("escapedGetChars", src, <<cur, start, <<>>>>)
  ELSE [str |-> substring(src.input, start.state.offset, cur.state.offset),
        exc |-> "", r |-> CursorOk(cur)]

(***************************************************************************)
(* _Tokenizer.  `t` is the record of the tokenizer's fields, together with *)
(* the exception in flight (exc, thrown) and the value the last call       *)
(* returned (ret: a boolean, val: a string or a list of strings, tok: a    *)
(* token's index).  Every operation leaves a tokenizer with an exception in flight *)
(* untouched, which is how a throw unwinds to the nearest handler.         *)
(***************************************************************************)
null == [null |-> TRUE]

Throwing(t) == t.exc # ""

Throw(t, exc, thrown) == [t EXCEPT !.exc = exc, !.thrown = thrown]

ThrowCursorError(t, r) ==
  Throw(t, "CursorError", [msg |-> r.err, cursor |-> r.ecur])

Return(t, ret) == [t EXCEPT !.ret = ret]

ReturnVal(t, val) == [t EXCEPT !.val = val]

peek(t) == t.cursor.state.peek

advance(t) ==
  IF Throwing(t) THEN t
  ELSE LET r == call("cursorAdvance", t, <<t.cursor>>)
       IN IF r.err = "" THEN [t EXCEPT !.cursor = r.cur]
          ELSE ThrowCursorError([t EXCEPT !.cursor = r.cur], r)

\* end.getChars(start), the string left in val
getCharsTo(t, start, end) ==
  IF Throwing(t) THEN t
  ELSE LET g == call("cursorGetChars", t, <<end, start>>)
       IN IF g.exc = "" THEN ReturnVal(t, g.str)
          ELSE IF g.exc = "RangeError" THEN Throw(t, "RangeError", null)
          ELSE ThrowCursorError(t, g.r)

getChars(t, start) == call("getCharsTo", t, <<start, t.cursor>>)

\* _processCarriageReturns, were it to leave every text as it is
processCarriageReturnsNever(t, content) ==
  content

\* _processCarriageReturns, were it to normalize whatever preserveLineEndings says
processCarriageReturnsAlways(t, content) ==
  replaceCrOrCrLf(content, 1)

processCarriageReturns(t, content) ==
  IF t.preserveLineEndings THEN content ELSE replaceCrOrCrLf(content, 1)

isInExpansionCase(t) ==
  Len(t.expansionCaseStack) > 0
    /\ t.expansionCaseStack[Len(t.expansionCaseStack)] = "EXPANSION_CASE_EXP_START"

isInExpansionForm(t) ==
  Len(t.expansionCaseStack) > 0
    /\ t.expansionCaseStack[Len(t.expansionCaseStack)] = "EXPANSION_FORM_START"

beginToken(t, type, start) ==
  IF Throwing(t) THEN t
  ELSE [t EXCEPT !.currentTokenStart = start, !.currentTokenType = type,
                 !.calls = Append(@, "_beginToken")]

\* _endToken(parts, end): the index of the pushed token is left in tok
endToken(t, parts, end) ==
  IF Throwing(t) THEN t
  ELSE IF t.currentTokenStart = null
  THEN Throw(t, "TokenError",
         [msg |-> "Programming error - attempted to end a token when there was no start to the token"])
  ELSE IF t.currentTokenType = "null"
  THEN Throw(t, "TokenError",
         [msg |-> "Programming error - attempted to end a token which has no token type"])
  ELSE LET s == call("getSpan", t, <<end, t.currentTokenStart, t.leadingTriviaCodePoints>>)
           token == [type |-> t.currentTokenType, parts |-> parts, sourceSpan |-> s.span]
       IN IF s.err # "" THEN ThrowCursorError(t, s)
          ELSE [t EXCEPT !.tokens = Append(@, token),
                         !.currentTokenStart = null,
                         !.currentTokenType = "null",
                         !.tok = Len(t.tokens) + 1,
                         !.calls = Append(@, "_endToken")]

\* _createError, were it to leave the token in progress as it is
createErrorKeeps(t, msg, arg, span) ==
  IF Throwing(t) THEN t
  ELSE Throw([t EXCEPT !.raised = @ + 1],
             "_ControlFlowError",
             [msg |-> msg, arg |-> arg, hint |-> isInExpansionForm(t),
              tokenType |-> t.currentTokenType, span |-> span])

\* _createError, were it to add the hint wherever the nesting stack is not empty
createErrorHints(t, msg, arg, span) ==
  IF Throwing(t) THEN t
  ELSE Throw([t EXCEPT !.currentTokenStart = null, !.currentTokenType = "null",
                       !.raised = @ + 1],
             "_ControlFlowError",
             [msg |-> msg, arg |-> arg, hint |-> t.expansionCaseStack # <<>>,
              tokenType |-> t.currentTokenType, span |-> span])

\* throw this._createError(msg, span)
createError(t, msg, arg, span) ==
  IF Throwing(t) THEN t
  ELSE Throw([t EXCEPT !.currentTokenStart = null, !.currentTokenType = "null",
                       !.raised = @ + 1],
             "_ControlFlowError",
             [msg |-> msg, arg |-> arg, hint |-> isInExpansionForm(t),
              tokenType |-> t.currentTokenType, span |-> span])

\* this._cursor.getSpan(start) without leading trivia
spanFrom(t, start) == call("getSpan", t, <<t.cursor, start, {}>>).span

\* handleError, were it to swallow the control-flow error without recording it
handleErrorDrops(t) ==
  LET e == IF t.exc = "CursorError"
           THEN call("createError", [t EXCEPT !.exc = ""], <<t.thrown.msg, <<>>, spanFrom(t, t.thrown.cursor)>>)
           ELSE t
  IN IF e.exc = "_ControlFlowError"
     THEN [e EXCEPT !.exc = "", !.thrown = null]
     ELSE e

handleError(t) ==
  LET e == IF t.exc = "CursorError"
           THEN call("createError", [t EXCEPT !.exc = ""], <<t.thrown.msg, <<>>, spanFrom(t, t.thrown.cursor)>>)
           ELSE t
  IN IF e.exc = "_ControlFlowError"
     THEN [e EXCEPT !.errors = Append(@, e.thrown), !.exc = "", !.thrown = null]
     ELSE e

attemptCharCode(t, charCode) ==
  IF Throwing(t) THEN t
  ELSE IF peek(t) = charCode THEN Return(call("advance", t, <<>>), TRUE)
  ELSE Return(t, FALSE)

toUpperCaseCharCode(code) ==
  IF code >= chars_a /\ code <= chars_z THEN code - chars_a + chars_A ELSE code

\* compareCharCodeCaseInsensitive, were it to tell the cases apart
compareCharCodeExactly(code1, code2) ==
  code1 = code2

compareCharCodeCaseInsensitive(code1, code2) ==
  toUpperCaseCharCode(code1) = toUpperCaseCharCode(code2)

attemptCharCodeCaseInsensitive(t, charCode) ==
  IF Throwing(t) THEN t
  ELSE IF compareCharCodeCaseInsensitive(peek(t), charCode)
       THEN Return(call("advance", t, <<>>), TRUE)
  ELSE Return(t, FALSE)

requireCharCode(t, charCode) ==
  IF Throwing(t) THEN t
  ELSE LET a == call("attemptCharCode", t, <<charCode>>)
       IN IF Throwing(a) \/ a.ret THEN a
          ELSE call("createError", a, <<"Unexpected character", <<peek(a)>>, spanFrom(a, t.cursor)>>)

RECURSIVE attemptStrFrom(_, _, _, _)
attemptStrFrom(t, str, i, initialPosition) ==
  IF Throwing(t) THEN t
  ELSE IF i > Len(str) THEN Return(t, TRUE)
  ELSE LET a == call("attemptCharCode", t, <<str[i]>>)
       IN IF Throwing(a) THEN a
          ELSE IF ~a.ret THEN Return([a EXCEPT !.cursor = initialPosition], FALSE)
          ELSE call("attemptStrFrom", a, <<str, i + 1, initialPosition>>)

attemptStr(t, str) ==
  IF Throwing(t) THEN t
  ELSE IF charsLeft(t, t.cursor) < Len(str) THEN Return(t, FALSE)
  ELSE call("attemptStrFrom", t, <<str, 1, t.cursor>>)

RECURSIVE attemptStrCaseInsensitiveFrom(_, _, _)
attemptStrCaseInsensitiveFrom(t, str, i) ==
  IF Throwing(t) THEN t
  ELSE IF i > Len(str) THEN Return(t, TRUE)
  ELSE LET a == call("attemptCharCodeCaseInsensitive", t, <<str[i]>>)
       IN IF Throwing(a) \/ ~a.ret THEN a
          ELSE call("attemptStrCaseInsensitiveFrom", a, <<str, i + 1>>)

attemptStrCaseInsensitive(t, str) == call("attemptStrCaseInsensitiveFrom", t, <<str, 1>>)

requireStr(t, str) ==
  IF Throwing(t) THEN t
  ELSE LET a == call("attemptStr", t, <<str>>)
       IN IF Throwing(a) \/ a.ret THEN a
          ELSE call("createError", a, <<"Unexpected character", <<peek(a)>>, spanFrom(a, t.cursor)>>)

isNotWhitespace(code) == ~isWhitespace(code) \/ code = chars_EOF

isNameEnd(code) ==
  isWhitespace(code) \/ code = chars_GT \/ code = chars_LT \/ code = chars_SLASH
    \/ code = chars_SQ \/ code = chars_DQ \/ code = chars_EQ \/ code = chars_EOF

isPrefixEnd(code) ==
  (code < chars_a \/ chars_z < code) /\ (code < chars_A \/ chars_Z < code)
    /\ (code < chars_d0 \/ code > chars_d9)

isDigitEntityEnd(code) ==
  code = chars_SEMICOLON \/ code = chars_EOF \/ ~isAsciiHexDigit(code)

isNamedEntityEnd(code) ==
  code = chars_SEMICOLON \/ code = chars_EOF \/ ~isAsciiLetter(code)

isExpansionCaseStart(code) == code # chars_RBRACE

\* The predicates handed to _attemptCharCodeUntilFn, by name; "isChar" is the
\* comparison with one character (_attemptUntilChar, code => code === chars.$GT),
\* "isPrefixOrColon" the loop condition of _consumePrefixAndName.
applyPredicate(predicate, code) ==
  CASE predicate.fn = "isNotWhitespace" -> isNotWhitespace(code)
    [] predicate.fn = "isNameEnd" -> isNameEnd(code)
    [] predicate.fn = "isDigitEntityEnd" -> isDigitEntityEnd(code)
    [] predicate.fn = "isNamedEntityEnd" -> isNamedEntityEnd(code)
    [] predicate.fn = "isPrefixOrColon" -> code = chars_COLON \/ isPrefixEnd(code)
    [] predicate.fn = "isChar" -> code = predicate.char

Fn(name) == [fn |-> name, char |-> 0]

IsChar(char) == [fn |-> "isChar", char |-> char]

RECURSIVE attemptCharCodeUntilFn(_, _)
attemptCharCodeUntilFn(t, predicate) ==
  IF Throwing(t) THEN t
  ELSE IF ~applyPredicate(predicate, peek(t))
       THEN call("attemptCharCodeUntilFn", call("advance", t, <<>>), <<predicate>>)
  ELSE t

requireCharCodeUntilFn(t, predicate, len) ==
  IF Throwing(t) THEN t
  ELSE LET a == call("attemptCharCodeUntilFn", t, <<predicate>>)
       IN IF Throwing(a) THEN a
          ELSE IF diff(a.cursor, t.cursor) < len
          THEN call("createError", a, <<"Unexpected character", <<peek(a)>>, spanFrom(a, t.cursor)>>)
          ELSE a

attemptUntilChar(t, char) == call("attemptCharCodeUntilFn", t, <<IsChar(char)>>)

\* _readChar(): the character is left in val
readChar(t) ==
  IF Throwing(t) THEN t
  ELSE LET ch == fromCodePoint(peek(t))
       IN IF ~ch.ok THEN Throw(t, "RangeError", null)
          ELSE ReturnVal(call("advance", t, <<>>), ch.str)

\* _readUntil(char): the string is left in val
readUntil(t, char) ==
  IF Throwing(t) THEN t ELSE call("getChars", call("attemptUntilChar", t, <<char>>), <<t.cursor>>)

(***************************************************************************)
(* The collaborators handed to the lexer: the named entity table and the   *)
(* tag classifier.                                                         *)
(***************************************************************************)
\* NAMED_ENTITIES: amp, lt, gt, sup2
NAMED_ENTITIES ==
  (<<97, 109, 112>> :> <<38>>) @@ (<<108, 116>> :> <<60>>) @@ (<<103, 116>> :> <<62>>)
    @@ (<<115, 117, 112, 50>> :> <<178>>)

toLowerCase(str) ==
  [i \in 1..Len(str) |->
     IF str[i] >= chars_A /\ str[i] <= chars_Z THEN str[i] - chars_A + chars_a ELSE str[i]]

\* getTagDefinition(tagName).getContentType(prefix) of the HTML tag table:
\* script and style hold raw text, textarea and (outside svg) title escapable raw text
getContentType(tagName, prefix) ==
  LET name == toLowerCase(tagName)
  IN IF name \in {<<115, 99, 114, 105, 112, 116>>, <<115, 116, 121, 108, 101>>}
     THEN "RAW_TEXT"
     ELSE IF name = <<116, 101, 120, 116, 97, 114, 101, 97>>
             \/ (name = <<116, 105, 116, 108, 101>> /\ prefix # <<115, 118, 103>>)
     THEN "ESCAPABLE_RAW_TEXT"
     ELSE "PARSABLE_DATA"

(***************************************************************************)
(* _Tokenizer: the scanners                                                *)
(***************************************************************************)
beginTokenHere(t, type) == call("beginToken", t, <<type, t.cursor>>)

endTokenHere(t, parts) == call("endToken", t, <<parts, t.cursor>>)

\* the numeric branch of _consumeEntity, after `&#`
consumeNumericEntity(t, start) ==
  LET ax == call("attemptCharCode", t, <<chars_x>>)
      aX == IF Throwing(ax) \/ ax.ret THEN ax ELSE call("attemptCharCode", ax, <<chars_X>>)
      isHex == aX.ret
      codeStart == aX.cursor
      d == call("attemptCharCodeUntilFn", aX, <<Fn("isDigitEntityEnd")>>)
  IN IF Throwing(d) THEN d
     ELSE IF peek(d) # chars_SEMICOLON
     THEN LET g == call("getChars", call("advance", d, <<>>), <<start>>)
          IN call("createError", g, <<IF isHex THEN "Unable to parse entity - hexadecimal"
                            ELSE "Unable to parse entity - decimal", g.val, spanFrom(g, g.cursor)>>)
     ELSE LET strNum == call("getChars", d, <<codeStart>>)
              a == call("advance", strNum, <<>>)
              charCode == parseInt(strNum.val, IF isHex THEN 16 ELSE 10)
              g == call("getChars", a, <<start>>)
              e == call("endTokenHere", g, <<<<fromCharCode(charCode), g.val>>>>)
          IN IF Throwing(a) \/ ~Throwing(e) THEN e
             ELSE LET c == call("getChars", [e EXCEPT !.exc = "", !.thrown = null], <<start>>)
                  IN call("createError", c, <<"Unknown entity", c.val, spanFrom(c, c.cursor)>>)

\* the named branch of _consumeEntity, were it to leave the cursor behind the
\* name when no `;` ends it
consumeNamedEntitySkipsName(t, start, textTokenType) ==
  LET nameStart == t.cursor
      d == call("attemptCharCodeUntilFn", t, <<Fn("isNamedEntityEnd")>>)
  IN IF Throwing(d) THEN d
     ELSE IF peek(d) # chars_SEMICOLON
     THEN call("endTokenHere", call("beginToken", d, <<textTokenType, start>>), <<<< <<chars_AMPERSAND>> >>>>)
     ELSE LET name == call("getChars", d, <<nameStart>>)
              a == call("advance", name, <<>>)
          IN IF Throwing(a) THEN a
             ELSE IF name.val \notin DOMAIN NAMED_ENTITIES
             THEN call("createError", a, <<"Unknown entity", name.val, spanFrom(a, start)>>)
             ELSE call("endTokenHere", a, <<<<NAMED_ENTITIES[name.val],
                                    <<chars_AMPERSAND>> \o name.val \o <<chars_SEMICOLON>> >>>>)

\* the named branch of _consumeEntity
consumeNamedEntity(t, start, textTokenType) ==
  LET nameStart == t.cursor
      d == call("attemptCharCodeUntilFn", t, <<Fn("isNamedEntityEnd")>>)
  IN IF Throwing(d) THEN d
     ELSE IF peek(d) # chars_SEMICOLON
     THEN call("endTokenHere", [call("beginToken", d, <<textTokenType, start>>) EXCEPT !.cursor = nameStart], <<<< <<chars_AMPERSAND>> >>>>)
     ELSE LET name == call("getChars", d, <<nameStart>>)
              a == call("advance", name, <<>>)
          IN IF Throwing(a) THEN a
             ELSE IF name.val \notin DOMAIN NAMED_ENTITIES
             THEN call("createError", a, <<"Unknown entity", name.val, spanFrom(a, start)>>)
             ELSE call("endTokenHere", a, <<<<NAMED_ENTITIES[name.val],
                                    <<chars_AMPERSAND>> \o name.val \o <<chars_SEMICOLON>> >>>>)

consumeEntity(t, textTokenType) ==
  IF Throwing(t) THEN t
  ELSE LET start == t.cursor
           h == call("attemptCharCode", call("advance", call("beginTokenHere", t, <<"ENCODED_ENTITY">>), <<>>), <<chars_HASH>>)
       IN IF Throwing(h) THEN h
          ELSE IF h.ret THEN call("consumeNumericEntity", h, <<start>>)
          ELSE call("consumeNamedEntity", h, <<start, textTokenType>>)

\* the closure _consumeRawTextWithTagClose hands to _consumeRawText
attemptTagClose(t, tagName) ==
  LET a1 == call("attemptCharCode", t, <<chars_LT>>)
      a2 == call("attemptCharCode", a1, <<chars_SLASH>>)
      a3 == call("attemptStrCaseInsensitive", call("attemptCharCodeUntilFn", a2, <<Fn("isNotWhitespace")>>), <<tagName>>)
  IN IF Throwing(a1) \/ ~a1.ret THEN a1
     ELSE IF Throwing(a2) \/ ~a2.ret THEN a2
     ELSE IF Throwing(a3) \/ ~a3.ret THEN a3
     ELSE call("attemptCharCode", call("attemptCharCodeUntilFn", a3, <<Fn("isNotWhitespace")>>), <<chars_GT>>)

\* endMarkerPredicate(): a literal marker or the matching close tag
endMarkerPredicate(t, endMarker) ==
  IF endMarker.tagClose THEN call("attemptTagClose", t, <<endMarker.str>>)
  ELSE call("attemptStr", t, <<endMarker.str>>)

RECURSIVE consumeRawTextLoop(_, _, _, _)
consumeRawTextLoop(t, consumeEntities, endMarker, parts) ==
  IF Throwing(t) THEN t
  ELSE LET tagCloseStart == t.cursor
           found == call("endMarkerPredicate", t, <<endMarker>>)
           back == [found EXCEPT !.cursor = tagCloseStart]
       IN IF Throwing(found) THEN found
          ELSE IF found.ret
          THEN call("endTokenHere", back, <<<<processCarriageReturns(t, parts)>>>>)
          ELSE IF consumeEntities /\ peek(back) = chars_AMPERSAND
          THEN call("consumeRawTextLoop", call("beginTokenHere", call("consumeEntity", call("endTokenHere", back, <<<<processCarriageReturns(t, parts)>>>>), <<"ESCAPABLE_RAW_TEXT">>), <<"ESCAPABLE_RAW_TEXT">>), <<consumeEntities, endMarker, <<>>>>)
          ELSE LET c == call("readChar", back, <<>>)
               IN call("consumeRawTextLoop", c, <<consumeEntities, endMarker, parts \o c.val>>)

consumeRawText(t, consumeEntities, endMarker) ==
  call("consumeRawTextLoop", call("beginTokenHere", t, <<IF consumeEntities THEN "ESCAPABLE_RAW_TEXT" ELSE "RAW_TEXT">>), <<consumeEntities, endMarker, <<>>>>)

Marker(str) == [tagClose |-> FALSE, str |-> str]

consumeComment(t, start) ==
  LET s == call("endTokenHere", call("requireCharCode", call("beginToken", t, <<"COMMENT_START", start>>), <<chars_MINUS>>), <<<<>>>>)
      body == call("consumeRawText", s, <<FALSE, Marker(<<45, 45, 62>>)>>)
  IN call("endTokenHere", call("requireStr", call("beginTokenHere", body, <<"COMMENT_END">>), <<<<45, 45, 62>>>>), <<<<>>>>)

consumeCdata(t, start) ==
  LET s == call("endTokenHere", call("requireStr", call("beginToken", t, <<"CDATA_START", start>>), <<<<67, 68, 65, 84, 65, 91>>>>), <<<<>>>>)
      body == call("consumeRawText", s, <<FALSE, Marker(<<93, 93, 62>>)>>)
  IN call("endTokenHere", call("requireStr", call("beginTokenHere", body, <<"CDATA_END">>), <<<<93, 93, 62>>>>), <<<<>>>>)

consumeDocType(t, start) ==
  LET b == call("beginToken", t, <<"DOC_TYPE", start>>)
      content == call("getChars", call("attemptUntilChar", b, <<chars_GT>>), <<b.cursor>>)
  IN call("endTokenHere", call("advance", content, <<>>), <<<<content.val>>>>)

\* _consumePrefixAndName(): [prefix, name] is left in val
consumePrefixAndName(t) ==
  IF Throwing(t) THEN t
  ELSE LET nameOrPrefixStart == t.cursor
           p == call("attemptCharCodeUntilFn", t, <<Fn("isPrefixOrColon")>>)
           hasPrefix == peek(p) = chars_COLON
           pre == call("getChars", p, <<nameOrPrefixStart>>)
           prefix == IF hasPrefix THEN pre.val ELSE <<>>
           q == IF hasPrefix THEN call("advance", pre, <<>>) ELSE p
           nameStart == IF hasPrefix THEN q.cursor ELSE nameOrPrefixStart
           n == call("requireCharCodeUntilFn", q, <<Fn("isNameEnd"), IF prefix = <<>> THEN 0 ELSE 1>>)
           name == call("getChars", n, <<nameStart>>)
       IN IF Throwing(p) THEN p
          ELSE IF Throwing(name) THEN name
          ELSE ReturnVal(name, <<prefix, name.val>>)

\* _consumeTagOpenStart, were the token to begin at the cursor, after the `<`
consumeTagOpenStartAtCursor(t, start) ==
  LET parts == call("consumePrefixAndName", call("beginToken", t, <<"TAG_OPEN_START", t.cursor>>), <<>>)
  IN call("endTokenHere", parts, <<parts.val>>)

consumeTagOpenStart(t, start) ==
  LET parts == call("consumePrefixAndName", call("beginToken", t, <<"TAG_OPEN_START", start>>), <<>>)
  IN call("endTokenHere", parts, <<parts.val>>)

consumeAttributeName(t) ==
  IF Throwing(t) THEN t
  ELSE IF peek(t) = chars_SQ \/ peek(t) = chars_DQ
  THEN call("createError", t, <<"Unexpected character", <<peek(t)>>, spanFrom(t, t.cursor)>>)
  ELSE LET prefixAndName == call("consumePrefixAndName", call("beginTokenHere", t, <<"ATTR_NAME">>), <<>>)
       IN call("endTokenHere", prefixAndName, <<prefixAndName.val>>)

consumeQuote(t, quoteChar) ==
  call("endTokenHere", call("requireCharCode", call("beginTokenHere", t, <<"ATTR_QUOTE">>), <<quoteChar>>), <<<< <<quoteChar>> >>>>)

consumeTagOpenEnd(t) ==
  IF Throwing(t) THEN t
  ELSE LET a == call("attemptCharCode", t, <<chars_SLASH>>)
           tokenType == IF a.ret THEN "TAG_OPEN_END_VOID" ELSE "TAG_OPEN_END"
       IN call("endTokenHere", call("requireCharCode", call("beginTokenHere", a, <<tokenType>>), <<chars_GT>>), <<<<>>>>)

consumeTagClose(t, start) ==
  LET b == call("attemptCharCodeUntilFn", call("beginToken", t, <<"TAG_CLOSE", start>>), <<Fn("isNotWhitespace")>>)
      prefixAndName == call("consumePrefixAndName", b, <<>>)
      e == call("requireCharCode", call("attemptCharCodeUntilFn", prefixAndName, <<Fn("isNotWhitespace")>>), <<chars_GT>>)
  IN call("endTokenHere", e, <<prefixAndName.val>>)

consumeRawTextWithTagClose(t, prefix, tagName, consumeEntities) ==
  LET body == call("consumeRawText", t, <<consumeEntities, [tagClose |-> TRUE, str |-> tagName]>>)
      c == call("requireCharCodeUntilFn", call("beginTokenHere", body, <<"TAG_CLOSE">>), <<IsChar(chars_GT), 3>>)
  IN call("endTokenHere", call("advance", c, <<>>), <<<<prefix, tagName>>>>)

\* _isTagStart, were only a letter after the `<` to start a tag
isTagStartOpening(t) ==
  IF Throwing(t) THEN t
  ELSE IF peek(t) = chars_LT
  THEN LET tmp == call("cursorAdvance", t, <<t.cursor>>)
           code == tmp.cur.state.peek
       IN IF tmp.err # "" THEN ThrowCursorError(t, tmp)
          ELSE Return(t, (chars_a <= code /\ code <= chars_z)
                           \/ (chars_A <= code /\ code <= chars_Z))
  ELSE Return(t, FALSE)

\* _isTagStart(): the answer is left in ret
isTagStart(t) ==
  IF Throwing(t) THEN t
  ELSE IF peek(t) = chars_LT
  THEN LET tmp == call("cursorAdvance", t, <<t.cursor>>)
           code == tmp.cur.state.peek
       IN IF tmp.err # "" THEN ThrowCursorError(t, tmp)
          ELSE Return(t, (chars_a <= code /\ code <= chars_z)
                           \/ (chars_A <= code /\ code <= chars_Z)
                           \/ code = chars_SLASH \/ code = chars_BANG)
  ELSE Return(t, FALSE)

\* isExpansionFormStart(): the answer is left in ret
isExpansionFormStart(t) ==
  IF Throwing(t) THEN t
  ELSE IF peek(t) # chars_LBRACE THEN Return(t, FALSE)
  ELSE LET isInterpolation == call("attemptStr", t, <<t.interpolationConfig.start>>)
       IN IF Throwing(isInterpolation) THEN isInterpolation
          ELSE Return(t, ~isInterpolation.ret)

\* _isTextEnd(): the answer is left in ret
isTextEnd(t) ==
  LET tagStart == call("isTagStart", t, <<>>)
      formStart == call("isExpansionFormStart", t, <<>>)
  IN IF Throwing(tagStart) THEN tagStart
     ELSE IF tagStart.ret \/ peek(t) = chars_EOF THEN Return(t, TRUE)
     ELSE IF t.tokenizeIcu /\ ~t.inInterpolation
     THEN IF Throwing(formStart) THEN formStart
          ELSE IF formStart.ret THEN Return(t, TRUE)
          ELSE Return(t, peek(t) = chars_RBRACE /\ isInExpansionCase(t))
     ELSE Return(t, FALSE)

\* The end predicates handed to _consumeWithInterpolation and
\* _consumeInterpolation, by name: _isTextEnd, _isTagStart, the closing quote
\* of an attribute value, the end of an unquoted attribute value.
endPredicate(t, predicate) ==
  CASE predicate.fn = "isTextEnd" -> call("isTextEnd", t, <<>>)
    [] predicate.fn = "isTagStart" -> call("isTagStart", t, <<>>)
    [] predicate.fn = "isChar" -> Return(t, peek(t) = predicate.char)
    [] predicate.fn = "isNameEnd" -> Return(t, isNameEnd(peek(t)))

\* _getProcessedChars(start, end): the string is left in val
getProcessedChars(t, start, end) ==
  LET g == call("getCharsTo", t, <<start, end>>)
  IN IF Throwing(g) THEN g ELSE ReturnVal(g, processCarriageReturns(t, g.val))

\* the loop of _consumeInterpolation, were a quote character never to open a
\* quoted string
consumeInterpolationLoopUnquoted(t, expressionStart, prematureEndPredicate, inQuote, inComment) ==
  IF Throwing(t) THEN t
  ELSE
    LET prematureEnd == IF peek(t) = chars_EOF THEN Return(t, TRUE)
                        ELSE call("endPredicate", t, <<prematureEndPredicate>>)
        current == t.cursor
        tagStart == call("isTagStart", t, <<>>)
        end == IF inQuote = <<>> THEN call("attemptStr", t, <<t.interpolationConfig.end>>)
               ELSE Return(t, FALSE)
        comment == IF inQuote = <<>> THEN call("attemptStr", end, <<<<47, 47>>>>)
                   ELSE Return(end, FALSE)
        nowInComment == inComment \/ comment.ret
        char == peek(comment)
        a == call("advance", comment, <<>>)
        atEnd == call("getProcessedChars", t, <<expressionStart, t.cursor>>)
        upTo == call("getProcessedChars", end, <<expressionStart, current>>)
    IN IF Throwing(prematureEnd) THEN prematureEnd
       ELSE IF prematureEnd.ret
       THEN call("endTokenHere", atEnd, <<<<t.interpolationConfig.start, atEnd.val>>>>)
       ELSE IF Throwing(tagStart) THEN tagStart
       ELSE IF tagStart.ret
       THEN call("endTokenHere", atEnd, <<<<t.interpolationConfig.start, atEnd.val>>>>)
       ELSE IF Throwing(end) THEN end
       ELSE IF end.ret
       THEN call("endTokenHere", upTo, <<<<t.interpolationConfig.start, upTo.val,
                                 t.interpolationConfig.end>>>>)
       ELSE IF Throwing(comment) THEN comment
       ELSE IF char = chars_BACKSLASH
       THEN call("consumeInterpolationLoop", call("advance", a, <<>>), <<expressionStart, prematureEndPredicate, inQuote, nowInComment>>)
       ELSE IF inQuote = <<char>>
       THEN call("consumeInterpolationLoop", a, <<expressionStart, prematureEndPredicate, <<>>, nowInComment>>)
       ELSE call("consumeInterpolationLoop", a, <<expressionStart, prematureEndPredicate, inQuote, nowInComment>>)

RECURSIVE consumeInterpolationLoopCommented(_, _, _, _, _)
\* the loop of _consumeInterpolation, were it not to look for the end marker
\* behind a comment marker
consumeInterpolationLoopCommented(t, expressionStart, prematureEndPredicate, inQuote, inComment) ==
  IF Throwing(t) THEN t
  ELSE
    LET prematureEnd == IF peek(t) = chars_EOF THEN Return(t, TRUE)
                        ELSE call("endPredicate", t, <<prematureEndPredicate>>)
        current == t.cursor
        tagStart == call("isTagStart", t, <<>>)
        end == IF inQuote = <<>> /\ ~inComment THEN call("attemptStr", t, <<t.interpolationConfig.end>>)
               ELSE Return(t, FALSE)
        comment == IF inQuote = <<>> THEN call("attemptStr", end, <<<<47, 47>>>>)
                   ELSE Return(end, FALSE)
        nowInComment == inComment \/ comment.ret
        char == peek(comment)
        a == call("advance", comment, <<>>)
        atEnd == call("getProcessedChars", t, <<expressionStart, t.cursor>>)
        upTo == call("getProcessedChars", end, <<expressionStart, current>>)
    IN IF Throwing(prematureEnd) THEN prematureEnd
       ELSE IF prematureEnd.ret
       THEN call("endTokenHere", atEnd, <<<<t.interpolationConfig.start, atEnd.val>>>>)
       ELSE IF Throwing(tagStart) THEN tagStart
       ELSE IF tagStart.ret
       THEN call("endTokenHere", atEnd, <<<<t.interpolationConfig.start, atEnd.val>>>>)
       ELSE IF Throwing(end) THEN end
       ELSE IF end.ret
       THEN call("endTokenHere", upTo, <<<<t.interpolationConfig.start, upTo.val,
                                 t.interpolationConfig.end>>>>)
       ELSE IF Throwing(comment) THEN comment
       ELSE IF char = chars_BACKSLASH
       THEN consumeInterpolationLoopCommented(call("advance", a, <<>>), expressionStart, prematureEndPredicate, inQuote, nowInComment)
       ELSE IF inQuote = <<char>>
       THEN consumeInterpolationLoopCommented(a, expressionStart, prematureEndPredicate, <<>>, nowInComment)
       ELSE IF ~nowInComment /\ inQuote = <<>> /\ isQuote(char)
       THEN consumeInterpolationLoopCommented(a, expressionStart, prematureEndPredicate, <<char>>, nowInComment)
       ELSE consumeInterpolationLoopCommented(a, expressionStart, prematureEndPredicate, inQuote, nowInComment)

RECURSIVE consumeInterpolationLoop(_, _, _, _, _)
\* the while loop of _consumeInterpolation and the code after it; inQuote is
\* <<>> for null
consumeInterpolationLoop(t, expressionStart, prematureEndPredicate, inQuote, inComment) ==
  IF Throwing(t) THEN t
  ELSE
    LET prematureEnd == IF peek(t) = chars_EOF THEN Return(t, TRUE)
                        ELSE call("endPredicate", t, <<prematureEndPredicate>>)
        current == t.cursor
        tagStart == call("isTagStart", t, <<>>)
        end == IF inQuote = <<>> THEN call("attemptStr", t, <<t.interpolationConfig.end>>)
               ELSE Return(t, FALSE)
        comment == IF inQuote = <<>> THEN call("attemptStr", end, <<<<47, 47>>>>)
                   ELSE Return(end, FALSE)
        nowInComment == inComment \/ comment.ret
        char == peek(comment)
        a == call("advance", comment, <<>>)
        atEnd == call("getProcessedChars", t, <<expressionStart, t.cursor>>)
        upTo == call("getProcessedChars", end, <<expressionStart, current>>)
    IN IF Throwing(prematureEnd) THEN prematureEnd
       ELSE IF prematureEnd.ret
       THEN call("endTokenHere", atEnd, <<<<t.interpolationConfig.start, atEnd.val>>>>)
       ELSE IF Throwing(tagStart) THEN tagStart
       ELSE IF tagStart.ret
       THEN call("endTokenHere", atEnd, <<<<t.interpolationConfig.start, atEnd.val>>>>)
       ELSE IF Throwing(end) THEN end
       ELSE IF end.ret
       THEN call("endTokenHere", upTo, <<<<t.interpolationConfig.start, upTo.val,
                                 t.interpolationConfig.end>>>>)
       ELSE IF Throwing(comment) THEN comment
       ELSE IF char = chars_BACKSLASH
       THEN call("consumeInterpolationLoop", call("advance", a, <<>>), <<expressionStart, prematureEndPredicate, inQuote, nowInComment>>)
       ELSE IF inQuote = <<char>>
       THEN call("consumeInterpolationLoop", a, <<expressionStart, prematureEndPredicate, <<>>, nowInComment>>)
       ELSE IF ~nowInComment /\ inQuote = <<>> /\ isQuote(char)
       THEN call("consumeInterpolationLoop", a, <<expressionStart, prematureEndPredicate, <<char>>, nowInComment>>)
       ELSE call("consumeInterpolationLoop", a, <<expressionStart, prematureEndPredicate, inQuote, nowInComment>>)

\* _consumeInterpolation, were the expression to start at the start marker
consumeInterpolationFromMarker(t, interpolationTokenType, interpolationStart, prematureEndPredicate) ==
  LET b == call("beginToken", t, <<interpolationTokenType, interpolationStart>>)
  IN call("consumeInterpolationLoop", b, <<interpolationStart, prematureEndPredicate, <<>>, FALSE>>)

consumeInterpolation(t, interpolationTokenType, interpolationStart, prematureEndPredicate) ==
  LET b == call("beginToken", t, <<interpolationTokenType, interpolationStart>>)
  IN call("consumeInterpolationLoop", b, <<b.cursor, prematureEndPredicate, <<>>, FALSE>>)

RECURSIVE consumeWithInterpolationLoop(_, _, _, _, _, _)
consumeWithInterpolationLoop(t, textTokenType, interpolationTokenType, endPred, endInterpolation, parts) ==
  IF Throwing(t) THEN t
  ELSE
    LET stop == call("endPredicate", t, <<endPred>>)
        current == t.cursor
        start == call("attemptStr", t, <<t.interpolationConfig.start>>)
        c == call("readChar", start, <<>>)
    IN IF Throwing(stop) THEN stop
       ELSE IF stop.ret
       THEN call("endTokenHere", [t EXCEPT !.inInterpolation = FALSE], <<<<processCarriageReturns(t, parts)>>>>)
       ELSE IF Throwing(start) THEN start
       ELSE IF start.ret
       THEN call("consumeWithInterpolationLoop", call("beginTokenHere", call("consumeInterpolation", call("endToken", start, <<<<processCarriageReturns(t, parts)>>, current>>), <<interpolationTokenType, current, endInterpolation>>), <<textTokenType>>), <<textTokenType, interpolationTokenType, endPred, endInterpolation, <<>>>>)
       ELSE IF peek(start) = chars_AMPERSAND
       THEN call("consumeWithInterpolationLoop", call("beginTokenHere", call("consumeEntity", call("endTokenHere", start, <<<<processCarriageReturns(t, parts)>>>>), <<textTokenType>>), <<textTokenType>>), <<textTokenType, interpolationTokenType, endPred, endInterpolation, <<>>>>)
       ELSE call("consumeWithInterpolationLoop", c, <<textTokenType, interpolationTokenType, endPred, endInterpolation, parts \o c.val>>)

consumeWithInterpolation(t, textTokenType, interpolationTokenType, endPred, endInterpolation) ==
  call("consumeWithInterpolationLoop", call("beginTokenHere", t, <<textTokenType>>), <<textTokenType, interpolationTokenType, endPred, endInterpolation, <<>>>>)

consumeAttributeValue(t) ==
  IF Throwing(t) THEN t
  ELSE IF peek(t) = chars_SQ \/ peek(t) = chars_DQ
  THEN LET quoteChar == peek(t)
           v == call("consumeWithInterpolation", call("consumeQuote", t, <<quoteChar>>), <<"ATTR_VALUE_TEXT", "ATTR_VALUE_INTERPOLATION", IsChar(quoteChar), IsChar(quoteChar)>>)
       IN call("consumeQuote", v, <<quoteChar>>)
  ELSE call("consumeWithInterpolation", t, <<"ATTR_VALUE_TEXT", "ATTR_VALUE_INTERPOLATION", Fn("isNameEnd"), Fn("isNameEnd")>>)

RECURSIVE consumeAttributes(_)
\* the attribute loop of _consumeTagOpen
consumeAttributes(t) ==
  IF Throwing(t) THEN t
  ELSE IF peek(t) # chars_SLASH /\ peek(t) # chars_GT /\ peek(t) # chars_LT
          /\ peek(t) # chars_EOF
  THEN LET n == call("attemptCharCodeUntilFn", call("consumeAttributeName", t, <<>>), <<Fn("isNotWhitespace")>>)
           eq == call("attemptCharCode", n, <<chars_EQ>>)
           v == IF Throwing(eq) \/ ~eq.ret THEN eq
                ELSE call("consumeAttributeValue", call("attemptCharCodeUntilFn", eq, <<Fn("isNotWhitespace")>>), <<>>)
       IN call("consumeAttributes", call("attemptCharCodeUntilFn", v, <<Fn("isNotWhitespace")>>), <<>>)
  ELSE t

\* the catch block of _consumeTagOpen, were it to put the cursor back to the start
\* of the tag before it falls back to text
catchTagOpenRewinds(e, start, openTagToken) ==
  IF e.exc = "_ControlFlowError"
  THEN LET c == [e EXCEPT !.exc = "", !.thrown = null, !.recovered = @ + 1,
                          !.cursor = start]
       IN IF openTagToken # 0
          THEN [c EXCEPT !.tokens[openTagToken].type = "INCOMPLETE_TAG_OPEN"]
          ELSE call("endTokenHere", call("beginToken", c, <<"TEXT", start>>), <<<< <<chars_LT>> >>>>)
  ELSE e

\* the catch block of _consumeTagOpen, were it to fall back to a text token from
\* the start of the tag also when the open tag token has been emitted
catchTagOpenAlwaysText(e, start, openTagToken) ==
  IF e.exc = "_ControlFlowError"
  THEN LET c == [e EXCEPT !.exc = "", !.thrown = null, !.recovered = @ + 1]
       IN call("endTokenHere", call("beginToken", c, <<"TEXT", start>>), <<<< <<chars_LT>> >>>>)
  ELSE e

\* the catch block of _consumeTagOpen, were the text token of the fallback to
\* begin at the cursor and not at the start of the tag
catchTagOpenTextAtCursor(e, start, openTagToken) ==
  IF e.exc = "_ControlFlowError"
  THEN LET c == [e EXCEPT !.exc = "", !.thrown = null, !.recovered = @ + 1]
       IN IF openTagToken # 0
          THEN [c EXCEPT !.tokens[openTagToken].type = "INCOMPLETE_TAG_OPEN"]
          ELSE call("endTokenHere", call("beginTokenHere", c, <<"TEXT">>), <<<< <<chars_LT>> >>>>)
  ELSE e

\* the catch block of _consumeTagOpen, were it to end the text token of the
\* fallback without beginning it
catchTagOpenEndsOnly(e, start, openTagToken) ==
  IF e.exc = "_ControlFlowError"
  THEN LET c == [e EXCEPT !.exc = "", !.thrown = null, !.recovered = @ + 1]
       IN IF openTagToken # 0
          THEN [c EXCEPT !.tokens[openTagToken].type = "INCOMPLETE_TAG_OPEN"]
          ELSE call("endTokenHere", c, <<<< <<chars_LT>> >>>>)
  ELSE e

\* the catch block of _consumeTagOpen; openTagToken is 0 for undefined
catchTagOpen(e, start, openTagToken) ==
  IF e.exc = "_ControlFlowError"
  THEN LET c == [e EXCEPT !.exc = "", !.thrown = null, !.recovered = @ + 1]
       IN IF openTagToken # 0
          THEN [c EXCEPT !.tokens[openTagToken].type = "INCOMPLETE_TAG_OPEN"]
          ELSE call("endTokenHere", call("beginToken", c, <<"TEXT", start>>), <<<< <<chars_LT>> >>>>)
  ELSE e

consumeTagOpen(t, start) ==
  LET checked == IF ~isAsciiLetter(peek(t))
                 THEN call("createError", t, <<"Unexpected character", <<peek(t)>>, spanFrom(t, start)>>)
                 ELSE t
      openTag == call("consumeTagOpenStart", checked, <<start>>)
      prefix == openTag.val[1]
      tagName == openTag.val[2]
      opened == call("consumeTagOpenEnd", call("consumeAttributes", call("attemptCharCodeUntilFn", openTag, <<Fn("isNotWhitespace")>>), <<>>), <<>>)
      contentTokenType == getContentType(tagName, prefix)
  IN IF Throwing(t) THEN t
     ELSE IF Throwing(openTag) THEN call("catchTagOpen", openTag, <<start, 0>>)
     ELSE IF Throwing(opened) THEN call("catchTagOpen", opened, <<start, openTag.tok>>)
     ELSE IF contentTokenType = "RAW_TEXT"
     THEN call("consumeRawTextWithTagClose", opened, <<prefix, tagName, FALSE>>)
     ELSE IF contentTokenType = "ESCAPABLE_RAW_TEXT"
     THEN call("consumeRawTextWithTagClose", opened, <<prefix, tagName, TRUE>>)
     ELSE opened

\* _consumeExpansionFormStart, were it to record every condition it does not
\* normalize, changed by the normalization or not
consumeExpansionFormStartRecords(t) ==
  LET open == call("endTokenHere", call("requireCharCode", call("beginTokenHere", t, <<"EXPANSION_FORM_START">>), <<chars_LBRACE>>), <<<<>>>>)
      pushed == IF Throwing(open) THEN open
                ELSE [open EXCEPT !.expansionCaseStack = Append(@, "EXPANSION_FORM_START")]
      condition == call("readUntil", call("beginTokenHere", pushed, <<"RAW_TEXT">>), <<chars_COMMA>>)
      normalizedCondition == processCarriageReturns(t, condition.val)
      conditionToken ==
        IF t.i18nNormalizeLineEndingsInICUs
        THEN call("endTokenHere", condition, <<<<normalizedCondition>>>>)
        ELSE LET e == call("endTokenHere", condition, <<<<condition.val>>>>)
             IN IF ~Throwing(e)
                THEN [e EXCEPT !.nonNormalizedIcuExpressions = Append(@, e.tokens[e.tok])]
                ELSE e
      afterCondition == call("attemptCharCodeUntilFn", call("requireCharCode", conditionToken, <<chars_COMMA>>), <<Fn("isNotWhitespace")>>)
      type == call("readUntil", call("beginTokenHere", afterCondition, <<"RAW_TEXT">>), <<chars_COMMA>>)
  IN call("attemptCharCodeUntilFn", call("requireCharCode", call("endTokenHere", type, <<<<type.val>>>>), <<chars_COMMA>>), <<Fn("isNotWhitespace")>>)

consumeExpansionFormStart(t) ==
  LET open == call("endTokenHere", call("requireCharCode", call("beginTokenHere", t, <<"EXPANSION_FORM_START">>), <<chars_LBRACE>>), <<<<>>>>)
      pushed == IF Throwing(open) THEN open
                ELSE [open EXCEPT !.expansionCaseStack = Append(@, "EXPANSION_FORM_START")]
      condition == call("readUntil", call("beginTokenHere", pushed, <<"RAW_TEXT">>), <<chars_COMMA>>)
      normalizedCondition == processCarriageReturns(t, condition.val)
      conditionToken ==
        IF t.i18nNormalizeLineEndingsInICUs
        THEN call("endTokenHere", condition, <<<<normalizedCondition>>>>)
        ELSE LET e == call("endTokenHere", condition, <<<<condition.val>>>>)
             IN IF ~Throwing(e) /\ normalizedCondition # condition.val
                THEN [e EXCEPT !.nonNormalizedIcuExpressions = Append(@, e.tokens[e.tok])]
                ELSE e
      afterCondition == call("attemptCharCodeUntilFn", call("requireCharCode", conditionToken, <<chars_COMMA>>), <<Fn("isNotWhitespace")>>)
      type == call("readUntil", call("beginTokenHere", afterCondition, <<"RAW_TEXT">>), <<chars_COMMA>>)
  IN call("attemptCharCodeUntilFn", call("requireCharCode", call("endTokenHere", type, <<<<type.val>>>>), <<chars_COMMA>>), <<Fn("isNotWhitespace")>>)

consumeExpansionCaseStart(t) ==
  LET value == call("readUntil", call("beginTokenHere", t, <<"EXPANSION_CASE_VALUE">>), <<chars_LBRACE>>)
      v == call("attemptCharCodeUntilFn", call("endTokenHere", value, <<<<trim(value.val)>>>>), <<Fn("isNotWhitespace")>>)
      open == call("attemptCharCodeUntilFn", call("endTokenHere", call("requireCharCode", call("beginTokenHere", v, <<"EXPANSION_CASE_EXP_START">>), <<chars_LBRACE>>), <<<<>>>>), <<Fn("isNotWhitespace")>>)
  IN IF Throwing(open) THEN open
     ELSE [open EXCEPT !.expansionCaseStack = Append(@, "EXPANSION_CASE_EXP_START")]

\* Array.prototype.pop(), which leaves an empty array empty
pop(stack) == IF stack = <<>> THEN stack ELSE SubSeq(stack, 1, Len(stack) - 1)

\* _consumeExpansionCaseEnd, were it to leave the case on the stack
consumeExpansionCaseEndKeeps(t) ==
  call("attemptCharCodeUntilFn", call("endTokenHere", call("requireCharCode", call("beginTokenHere", t, <<"EXPANSION_CASE_EXP_END">>), <<chars_RBRACE>>), <<<<>>>>), <<Fn("isNotWhitespace")>>)

consumeExpansionCaseEnd(t) ==
  LET close == call("attemptCharCodeUntilFn", call("endTokenHere", call("requireCharCode", call("beginTokenHere", t, <<"EXPANSION_CASE_EXP_END">>), <<chars_RBRACE>>), <<<<>>>>), <<Fn("isNotWhitespace")>>)
  IN IF Throwing(close) THEN close
     ELSE [close EXCEPT !.expansionCaseStack = pop(@)]

consumeExpansionFormEnd(t) ==
  LET close == call("endTokenHere", call("requireCharCode", call("beginTokenHere", t, <<"EXPANSION_FORM_END">>), <<chars_RBRACE>>), <<<<>>>>)
  IN IF Throwing(close) THEN close
     ELSE [close EXCEPT !.expansionCaseStack = pop(@)]

\* _tokenizeExpansionForm(): whether an ICU token was created is left in ret
tokenizeExpansionForm(t) ==
  LET formStart == call("isExpansionFormStart", t, <<>>)
  IN IF Throwing(formStart) THEN formStart
     ELSE IF formStart.ret THEN Return(call("consumeExpansionFormStart", t, <<>>), TRUE)
     ELSE IF isExpansionCaseStart(peek(t)) /\ isInExpansionForm(t)
     THEN Return(call("consumeExpansionCaseStart", t, <<>>), TRUE)
     ELSE IF peek(t) = chars_RBRACE /\ isInExpansionCase(t)
     THEN Return(call("consumeExpansionCaseEnd", t, <<>>), TRUE)
     ELSE IF peek(t) = chars_RBRACE /\ isInExpansionForm(t)
     THEN Return(call("consumeExpansionFormEnd", t, <<>>), TRUE)
     ELSE Return(t, FALSE)

(***************************************************************************)
(* The driver: the body of the while loop of _Tokenizer.tokenize()         *)
(***************************************************************************)
TextEnd == Fn("isTextEnd")

TagStart == Fn("isTagStart")

\* The chain of _attemptCharCode calls at the top of the try block: the tokenizer
\* after them and the handler they select ("" when one of them threw).
dispatch(t) ==
  LET lt == call("attemptCharCode", t, <<chars_LT>>)
      bang == call("attemptCharCode", lt, <<chars_BANG>>)
      lbracket == call("attemptCharCode", bang, <<chars_LBRACKET>>)
      minus == call("attemptCharCode", lbracket, <<chars_MINUS>>)
      slash == call("attemptCharCode", bang, <<chars_SLASH>>)
      on(c, handler) == [t |-> c, handler |-> IF Throwing(c) THEN "" ELSE handler]
  IN IF Throwing(lt) THEN on(lt, "")
     ELSE IF ~lt.ret THEN on(lt, "text")
     ELSE IF Throwing(bang) THEN on(bang, "")
     ELSE IF bang.ret
     THEN IF Throwing(lbracket) THEN on(lbracket, "")
          ELSE IF lbracket.ret THEN on(lbracket, "_consumeCdata")
          ELSE IF minus.ret THEN on(minus, "_consumeComment")
          ELSE on(minus, "_consumeDocType")
     ELSE IF slash.ret THEN on(slash, "_consumeTagClose")
     ELSE on(slash, "_consumeTagOpen")

\* The try block after a dispatch to text: the ICU attempt, then the text.
\* icu tells whether _tokenizeExpansionForm created a token (or threw).
consumeTextOrExpansionForm(t) ==
  LET icu == call("tokenizeExpansionForm", t, <<>>)
  IN IF t.tokenizeIcu /\ (Throwing(icu) \/ icu.ret) THEN [t |-> icu, icu |-> TRUE]
     ELSE [t |-> call("consumeWithInterpolation", t, <<"TEXT", "INTERPOLATION", TextEnd, TagStart>>),
           icu |-> FALSE]

\* One iteration of the loop, from the clone of the cursor to the catch block.
\* What is left in flight afterwards propagates out of tokenize().
iteration(t) ==
  LET start == t.cursor
      d == call("dispatch", t, <<>>)
  IN [handler |-> IF d.handler = "text"
                  THEN IF call("consumeTextOrExpansionForm", d.t, <<>>).icu
                       THEN "_tokenizeExpansionForm" ELSE "_consumeWithInterpolation"
                  ELSE d.handler,
      t |-> call("handleError", CASE d.handler = "" -> d.t
                [] d.handler = "text" -> call("consumeTextOrExpansionForm", d.t, <<>>).t
                [] d.handler = "_consumeCdata" -> call("consumeCdata", d.t, <<start>>)
                [] d.handler = "_consumeComment" -> call("consumeComment", d.t, <<start>>)
                [] d.handler = "_consumeDocType" -> call("consumeDocType", d.t, <<start>>)
                [] d.handler = "_consumeTagClose" -> call("consumeTagClose", d.t, <<start>>)
                [] d.handler = "_consumeTagOpen" -> call("consumeTagOpen", d.t, <<start>>), <<>>)]

\* the two statements after the loop, were they to record a diagnostic for
\* the forms and cases that are still open
emitEOFBalanced(t) ==
  LET e == call("endTokenHere", call("beginTokenHere", t, <<"EOF">>), <<<<>>>>)
  IN IF Throwing(e) \/ e.expansionCaseStack = <<>> THEN e
     ELSE [e EXCEPT !.errors = Append(@, [msg |-> "Unexpected character", arg |-> <<chars_EOF>>,
                                          hint |-> TRUE, tokenType |-> "EOF",
                                          span |-> e.tokens[e.tok].sourceSpan])]

\* the two statements after the loop
emitEOF(t) == call("endTokenHere", call("beginTokenHere", t, <<"EOF">>), <<<<>>>>)

RECURSIVE mergeTextTokensKeepingSpan(_, _, _)
\* mergeTextTokens, were it to leave the span of the first fragment as it is
mergeTextTokensKeepingSpan(srcTokens, i, dstTokens) ==
  IF i > Len(srcTokens) THEN dstTokens
  ELSE LET token == srcTokens[i]
           n == Len(dstTokens)
       IN IF n > 0 /\ ((dstTokens[n].type = "TEXT" /\ token.type = "TEXT")
                       \/ (dstTokens[n].type = "ATTR_VALUE_TEXT"
                           /\ token.type = "ATTR_VALUE_TEXT"))
          THEN mergeTextTokensKeepingSpan(srcTokens, i + 1,
                 [dstTokens EXCEPT ![n].parts[1] = @ \o token.parts[1]])
          ELSE mergeTextTokensKeepingSpan(srcTokens, i + 1, Append(dstTokens, token))

RECURSIVE mergeTextTokensFrom(_, _, _)
\* mergeTextTokens, were it to merge the attribute value texts only
mergeAttrValueTextsFrom(srcTokens, i, dstTokens) ==
  IF i > Len(srcTokens) THEN dstTokens
  ELSE LET token == srcTokens[i]
           n == Len(dstTokens)
       IN IF n > 0 /\ dstTokens[n].type = "ATTR_VALUE_TEXT" /\ token.type = "ATTR_VALUE_TEXT"
          THEN mergeTextTokensFrom(srcTokens, i + 1,
                 [dstTokens EXCEPT ![n].parts[1] = @ \o token.parts[1],
                                   ![n].sourceSpan.end = token.sourceSpan.end])
          ELSE mergeTextTokensFrom(srcTokens, i + 1, Append(dstTokens, token))

mergeTextTokensFrom(srcTokens, i, dstTokens) ==
  IF i > Len(srcTokens) THEN dstTokens
  ELSE LET token == srcTokens[i]
           n == Len(dstTokens)
       IN IF n > 0 /\ ((dstTokens[n].type = "TEXT" /\ token.type = "TEXT")
                       \/ (dstTokens[n].type = "ATTR_VALUE_TEXT"
                           /\ token.type = "ATTR_VALUE_TEXT"))
          THEN mergeTextTokensFrom(srcTokens, i + 1,
                 [dstTokens EXCEPT ![n].parts[1] = @ \o token.parts[1],
                                   ![n].sourceSpan.end = token.sourceSpan.end])
          ELSE mergeTextTokensFrom(srcTokens, i + 1, Append(dstTokens, token))

mergeTextTokens(srcTokens) == mergeTextTokensFrom(srcTokens, 1, <<>>)

DEFAULT_INTERPOLATION_CONFIG == [start |-> <<123, 123>>, end |-> <<125, 125>>]

\* options: TokenizeOptions = {}
DefaultOptions ==
  [tokenizeExpansionForms |-> FALSE, interpolationConfig |-> DEFAULT_INTERPOLATION_CONFIG,
   range |-> null, escapedString |-> FALSE, i18nNormalizeLineEndingsInICUs |-> FALSE,
   leadingTriviaChars |-> {}, preserveLineEndings |-> FALSE]

\* the range the constructor scans: options.range, or the whole source
rangeOf(source, options) ==
  IF options.range = null
  THEN [endPos |-> Len(source), startPos |-> 0, startLine |-> 0, startCol |-> 0]
  ELSE options.range

\* the fields, were the constructor to enable ICU tokenizing whatever the options say
fieldsTokenizingIcu(source, options) ==
  [input |-> source, end |-> rangeOf(source, options).endPos,
   escapedString |-> options.escapedString,
   tokenizeIcu |-> TRUE,
   interpolationConfig |-> options.interpolationConfig,
   leadingTriviaCodePoints |-> options.leadingTriviaChars,
   preserveLineEndings |-> options.preserveLineEndings,
   i18nNormalizeLineEndingsInICUs |-> options.i18nNormalizeLineEndingsInICUs,
   currentTokenStart |-> null, currentTokenType |-> "null",
   expansionCaseStack |-> <<>>, inInterpolation |-> FALSE,
   tokens |-> <<>>, errors |-> <<>>, nonNormalizedIcuExpressions |-> <<>>,
   exc |-> "", thrown |-> null, ret |-> FALSE, val |-> <<>>, tok |-> 0,
   raised |-> 0, recovered |-> 0, calls |-> <<>>]

\* the fields the constructor of _Tokenizer assigns, before the cursor is made
fields(source, options) ==
  [input |-> source, end |-> rangeOf(source, options).endPos,
   escapedString |-> options.escapedString,
   tokenizeIcu |-> options.tokenizeExpansionForms,
   interpolationConfig |-> options.interpolationConfig,
   leadingTriviaCodePoints |-> options.leadingTriviaChars,
   preserveLineEndings |-> options.preserveLineEndings,
   i18nNormalizeLineEndingsInICUs |-> options.i18nNormalizeLineEndingsInICUs,
   currentTokenStart |-> null, currentTokenType |-> "null",
   expansionCaseStack |-> <<>>, inInterpolation |-> FALSE,
   tokens |-> <<>>, errors |-> <<>>, nonNormalizedIcuExpressions |-> <<>>,
   exc |-> "", thrown |-> null, ret |-> FALSE, val |-> <<>>, tok |-> 0,
   raised |-> 0, recovered |-> 0, calls |-> <<>>]

\* new _Tokenizer(file, getTagDefinition, options)
newTokenizer(source, options) ==
  LET r == call("cursorInit", fields(source, options), <<rangeOf(source, options)>>)
      t == [c \in {"cursor"} |-> r.cur] @@ fields(source, options)
  IN IF r.err = "" THEN t ELSE call("handleError", ThrowCursorError(t, r), <<>>)

RECURSIVE runLoop(_)
\* _Tokenizer.tokenize() as a whole
runLoop(t) ==
  IF Throwing(t) THEN t
  ELSE IF peek(t) # chars_EOF THEN call("runLoop", call("iteration", t, <<>>).t, <<>>)
  ELSE call("emitEOF", t, <<>>)

\* tokenize(), were it to return the tokens without the merge pass
tokenizeUnmerged(source, options) ==
  LET t == call("runLoop", call("newTokenizer", source, <<options>>), <<>>)
  IN [exc |-> t.exc,
      tokens |-> IF Throwing(t) THEN <<>> ELSE t.tokens,
      errors |-> t.errors,
      nonNormalizedIcuExpressions |-> t.nonNormalizedIcuExpressions]

\* tokenize(source, url, getTagDefinition, options): the TokenizeResult, or the
\* exception that leaves it
tokenize(source, options) ==
  LET t == call("runLoop", call("newTokenizer", source, <<options>>), <<>>)
  IN [exc |-> t.exc,
      tokens |-> IF Throwing(t) THEN <<>> ELSE mergeTextTokens(t.tokens),
      errors |-> t.errors,
      nonNormalizedIcuExpressions |-> t.nonNormalizedIcuExpressions]

\* The catch block of the loop, and where control is afterwards: back at the head
\* of the loop, or out of tokenize() with what handleError rethrew.
caught(t) ==
  [t |-> call("handleError", t, <<>>), pc |-> IF Throwing(call("handleError", t, <<>>)) THEN "thrown" ELSE "loop"]

\* The statement of _Tokenizer.tokenize() at position pc: the tokenizer after it and
\* the position control is at then.  "loop" is the head of the loop with the chain
\* of _attemptCharCode calls, the other positions are the handlers the chain selects.
statement(t, position, start) ==
  CASE position = "loop" /\ peek(t) = chars_EOF ->
         [t |-> call("emitEOF", t, <<>>), pc |-> IF Throwing(call("emitEOF", t, <<>>)) THEN "thrown" ELSE "eof"]
    [] position = "loop" /\ peek(t) # chars_EOF ->
         LET d == call("dispatch", t, <<>>)
         IN IF d.handler = "" THEN caught(d.t)
            ELSE IF d.handler # "text" THEN [t |-> d.t, pc |-> d.handler]
            ELSE IF t.tokenizeIcu THEN [t |-> d.t, pc |-> "_tokenizeExpansionForm"]
            ELSE [t |-> d.t, pc |-> "_consumeWithInterpolation"]
    [] position = "_tokenizeExpansionForm" ->
         LET icu == call("tokenizeExpansionForm", t, <<>>)
         IN IF Throwing(icu) \/ icu.ret THEN caught(icu)
            ELSE [t |-> t, pc |-> "_consumeWithInterpolation"]
    [] position = "_consumeWithInterpolation" ->
         caught(call("consumeWithInterpolation", t, <<"TEXT", "INTERPOLATION", TextEnd, TagStart>>))
    [] position = "_consumeCdata" -> caught(call("consumeCdata", t, <<start>>))
    [] position = "_consumeComment" -> caught(call("consumeComment", t, <<start>>))
    [] position = "_consumeDocType" -> caught(call("consumeDocType", t, <<start>>))
    [] position = "_consumeTagClose" -> caught(call("consumeTagClose", t, <<start>>))
    [] position = "_consumeTagOpen" -> caught(call("consumeTagOpen", t, <<start>>))

\* A method call, this.method(...args).  The lexer reaches its cursor through this
\* operator (the cursor's class, plain or escaped, is chosen at construction), and
\* the state machine reaches the constructor and the statements of tokenize().
call(method, this, args) ==
  CASE method = "advanceState" -> advanceState(this, args[1])
    [] method = "advanceInternal" -> advanceInternal(this, args[1])
    [] method = "decodeHexDigits" -> decodeHexDigits(this, args[1], args[2], args[3])
    [] method = "advanceToRBrace" -> advanceToRBrace(this, args[1], args[2])
    [] method = "advanceOctal" -> advanceOctal(this, args[1], args[2], args[3], args[4])
    [] method = "processEscapeSequence" -> processEscapeSequence(this, args[1])
    [] method = "cursorAdvance" -> cursorAdvance(this, args[1])
    [] method = "cursorInit" -> cursorInit(this, args[1])
    [] method = "skipLeadingTrivia" -> skipLeadingTrivia(this, args[1], args[2], args[3])
    [] method = "getSpan" -> getSpan(this, args[1], args[2], args[3])
    [] method = "escapedGetChars" -> escapedGetChars(this, args[1], args[2], args[3])
    [] method = "cursorGetChars" -> cursorGetChars(this, args[1], args[2])
    [] method = "advance" -> advance(this)
    [] method = "getCharsTo" -> getCharsTo(this, args[1], args[2])
    [] method = "getChars" -> getChars(this, args[1])
    [] method = "beginToken" -> beginToken(this, args[1], args[2])
    [] method = "endToken" -> endToken(this, args[1], args[2])
    [] method = "createError" -> createError(this, args[1], args[2], args[3])
    [] method = "handleError" -> handleError(this)
    [] method = "attemptCharCode" -> attemptCharCode(this, args[1])
    [] method = "attemptCharCodeCaseInsensitive" -> attemptCharCodeCaseInsensitive(this, args[1])
    [] method = "requireCharCode" -> requireCharCode(this, args[1])
    [] method = "attemptStrFrom" -> attemptStrFrom(this, args[1], args[2], args[3])
    [] method = "attemptStr" -> attemptStr(this, args[1])
    [] method = "attemptStrCaseInsensitiveFrom" -> attemptStrCaseInsensitiveFrom(this, args[1], args[2])
    [] method = "attemptStrCaseInsensitive" -> attemptStrCaseInsensitive(this, args[1])
    [] method = "requireStr" -> requireStr(this, args[1])
    [] method = "attemptCharCodeUntilFn" -> attemptCharCodeUntilFn(this, args[1])
    [] method = "requireCharCodeUntilFn" -> requireCharCodeUntilFn(this, args[1], args[2])
    [] method = "attemptUntilChar" -> attemptUntilChar(this, args[1])
    [] method = "readChar" -> readChar(this)
    [] method = "readUntil" -> readUntil(this, args[1])
    [] method = "beginTokenHere" -> beginTokenHere(this, args[1])
    [] method = "endTokenHere" -> endTokenHere(this, args[1])
    [] method = "consumeNumericEntity" -> consumeNumericEntity(this, args[1])
    [] method = "consumeNamedEntity" -> consumeNamedEntity(this, args[1], args[2])
    [] method = "consumeEntity" -> consumeEntity(this, args[1])
    [] method = "attemptTagClose" -> attemptTagClose(this, args[1])
    [] method = "endMarkerPredicate" -> endMarkerPredicate(this, args[1])
    [] method = "consumeRawTextLoop" -> consumeRawTextLoop(this, args[1], args[2], args[3])
    [] method = "consumeRawText" -> consumeRawText(this, args[1], args[2])
    [] method = "consumeComment" -> consumeComment(this, args[1])
    [] method = "consumeCdata" -> consumeCdata(this, args[1])
    [] method = "consumeDocType" -> consumeDocType(this, args[1])
    [] method = "consumePrefixAndName" -> consumePrefixAndName(this)
    [] method = "consumeTagOpenStart" -> consumeTagOpenStart(this, args[1])
    [] method = "consumeAttributeName" -> consumeAttributeName(this)
    [] method = "consumeQuote" -> consumeQuote(this, args[1])
    [] method = "consumeTagOpenEnd" -> consumeTagOpenEnd(this)
    [] method = "consumeTagClose" -> consumeTagClose(this, args[1])
    [] method = "consumeRawTextWithTagClose" -> consumeRawTextWithTagClose(this, args[1], args[2], args[3])
    [] method = "isTagStart" -> isTagStart(this)
    [] method = "isExpansionFormStart" -> isExpansionFormStart(this)
    [] method = "isTextEnd" -> isTextEnd(this)
    [] method = "endPredicate" -> endPredicate(this, args[1])
    [] method = "getProcessedChars" -> getProcessedChars(this, args[1], args[2])
    [] method = "consumeInterpolationLoop" -> consumeInterpolationLoop(this, args[1], args[2], args[3], args[4])
    [] method = "consumeInterpolation" -> consumeInterpolation(this, args[1], args[2], args[3])
    [] method = "consumeWithInterpolationLoop" -> consumeWithInterpolationLoop(this, args[1], args[2], args[3], args[4], args[5])
    [] method = "consumeWithInterpolation" -> consumeWithInterpolation(this, args[1], args[2], args[3], args[4])
    [] method = "consumeAttributeValue" -> consumeAttributeValue(this)
    [] method = "consumeAttributes" -> consumeAttributes(this)
    [] method = "catchTagOpen" -> catchTagOpen(this, args[1], args[2])
    [] method = "consumeTagOpen" -> consumeTagOpen(this, args[1])
    [] method = "consumeExpansionFormStart" -> consumeExpansionFormStart(this)
    [] method = "consumeExpansionCaseStart" -> consumeExpansionCaseStart(this)
    [] method = "consumeExpansionCaseEnd" -> consumeExpansionCaseEnd(this)
    [] method = "consumeExpansionFormEnd" -> consumeExpansionFormEnd(this)
    [] method = "tokenizeExpansionForm" -> tokenizeExpansionForm(this)
    [] method = "dispatch" -> dispatch(this)
    [] method = "consumeTextOrExpansionForm" -> consumeTextOrExpansionForm(this)
    [] method = "iteration" -> iteration(this)
    [] method = "emitEOF" -> emitEOF(this)
    [] method = "newTokenizer" -> newTokenizer(this, args[1])
    [] method = "runLoop" -> runLoop(this)
    [] method = "statement" -> statement(this, args[1], args[2])

(***************************************************************************)
(* The state machine: one call of tokenize(source, url, getTagDefinition,  *)
(* options).  pc is the position in _Tokenizer.tokenize(): "loop" at the   *)
(* head of the loop, a handler's name when the chain of _attemptCharCode   *)
(* calls has selected it, "eof" once the EOF token is emitted, "done" once *)
(* the merged result is returned, "thrown" when an exception left the      *)
(* entry point.  start is the local of that name, the clone of the cursor  *)
(* taken at the head of the iteration.  handler is the position whose      *)
(* statement ran last.  raised counts the _ControlFlowError objects that   *)
(* _createError has made so far, recovered those of them that the catch    *)
(* block of _consumeTagOpen has kept from the driver, calls the calls of   *)
(* _beginToken and of _endToken so far, in order (of _endToken those that  *)
(* pushed a token).                                                        *)
(***************************************************************************)
VARIABLES input, options, cursor, currentTokenStart, currentTokenType,
          expansionCaseStack, inInterpolation, tokens, errors,
          nonNormalizedIcuExpressions, start, pc, result, exception, handler,
          raised, recovered, calls

vars == <<input, options, cursor, currentTokenStart, currentTokenType,
          expansionCaseStack, inInterpolation, tokens, errors,
          nonNormalizedIcuExpressions, start, pc, result, exception, handler,
          raised, recovered, calls>>

\* the _Tokenizer instance behind the variables
Self ==
  [fields(input, options) EXCEPT
     !.currentTokenStart = currentTokenStart,
     !.currentTokenType = currentTokenType, !.expansionCaseStack = expansionCaseStack,
     !.inInterpolation = inInterpolation, !.tokens = tokens, !.errors = errors,
     !.nonNormalizedIcuExpressions = nonNormalizedIcuExpressions,
     !.raised = raised, !.recovered = recovered, !.calls = calls]
    @@ [c \in {"cursor"} |-> cursor]

Becomes(t) ==
  /\ cursor' = t.cursor
  /\ currentTokenStart' = t.currentTokenStart
  /\ currentTokenType' = t.currentTokenType
  /\ expansionCaseStack' = t.expansionCaseStack
  /\ inInterpolation' = t.inInterpolation
  /\ tokens' = t.tokens
  /\ errors' = t.errors
  /\ nonNormalizedIcuExpressions' = t.nonNormalizedIcuExpressions
  /\ exception' = t.exc
  /\ raised' = t.raised
  /\ recovered' = t.recovered
  /\ calls' = t.calls

\* the number of pieces a generated text is put together from, at most
MaxFragments == 2

\* the pieces the markup is put together from
\*   `<` `>` `/` `!` `a` ` ` `=` `"` `&` `;` `#` `1` `:` `{{` `}}` `<!--` `-->` `\r`
\*   `\n` `<a` ` b` `</a>` `/>` `&amp;` `'`
MarkupFragments ==
  {<<60>>, <<62>>, <<47>>, <<33>>, <<97>>, <<32>>, <<61>>, <<34>>, <<38>>, <<59>>,
   <<35>>, <<49>>, <<58>>, <<123, 123>>, <<125, 125>>, <<60, 33, 45, 45>>,
   <<45, 45, 62>>, <<13>>, <<10>>, <<60, 97>>, <<32, 98>>, <<60, 47, 97, 62>>,
   <<47, 62>>, <<38, 97, 109, 112, 59>>, <<39>>}

\* whole documents
\*   `<div class="a">{{x}}</div>` `<p>a &amp; b</p>` `<a b=c>` `<a b="c" d>x</a>` `<a/>`
\*   `<![CDATA[a]]>` `<!doctype a>` `<script>a&amp;</b></script>`
\*   `<title>a&amp;b</title>` `<svg:title>a</svg:title>` `<1tag>` `<a b:>x` `a &#65;
\*   &#x41; b` `{{a "}}" b}}c` `<a b="{{c}} d">` `a {{b` `<a b='c'/>x` `a\0b` `<a  b = c
\*   >` ` <a\n/> `
\*   `<!-- hi -->`
\*   `&sup2;`
\*   `&a;`
\*   `&a1;`
\*   `&#x1F600;`
\*   `&#128512;`
\*   `&#65;`
\*   `&#x41;`
\*   `&#x110000;`
\*   `&#1114112;`
\*   `&#65`
\*   `a &#x41 b`
\*   `{{a`
\*   `{{a\`
\*   `{{a\b`
\*   `{{"}}`
\*   `{{ a \`
\*   `<a b="c`
\*   `<a b='c>`
\*   `<a b`
\*   `<a b=`
\*   `<script>a&amp;{{x}}<x></b></SCRIPT>c`
\*   `<style>a</style ></style>`
\*   `<svg:script>a</script>`
\*   `<script>a</ script>`
\*   `<script a="b">c</script><p>`
\*   `<textarea>a & b</textarea>`
\*   `<title>&zz;{{x}}</title>`
\*   `<title>{{x}}<b>&lt;</b>&#65;</title>`
\*   `<textarea>&amp;&lt;</textarea>`
\*   `<title>a&sup2;</title>`
\*   `a{b}c`
\*   `{a, b, =0 {x}}`
\*   `} {`
\*   `{{ "}}" }}x`
\*   `{{ '}}' + "}}" }}`
\*   `{{ "a\"}}" }}`
\*   `{{ 'a"}}' }}`
\*   `{{a\}}b}}`
\*   `{{ a // b }} c`
\*   `{{ a // 'b }} c' }}`
\*   `{{ "//" }}`
\*   `{{ "a }} b`
\*   `{{a//}}b}}`
\*   `{{a<b>c}}`
\*   `{{ "x<b>" }}`
\*   `{{a</b>}}`
\*   `{{a<!--b-->}}`
\*   `{{a< b}}`
\*   `{{a<`
\*   `{{a</`
\*   `{{a<b`
\*   `a &b c`
\*   `a&&b`
\*   `<a b="x&y z">`
\*   `<a b=&y>`
\*   `<a b="&x`
\*   `<textarea>&x`
\*   `a &amp b\r\n&`
\*   `<title>a&b</title>`
\*   `<a:>`
\*   `x<a: b>c`
\*   `<a:`
\*   `<:a>`
\*   `a < b`
\*   `<svg:>x`
\*   `<a b="x&y z">c&d`
\*   `<a ">`
\*   `<!-x`
MarkupScenarios ==
  {
   <<60, 100, 105, 118, 32, 99, 108, 97, 115, 115, 61, 34, 97, 34, 62, 123, 123, 120, 125, 125, 60, 47, 100, 105, 118, 62>>,
   <<60, 112, 62, 97, 32, 38, 97, 109, 112, 59, 32, 98, 60, 47, 112, 62>>,
   <<60, 97, 32, 98, 61, 99, 62>>,
   <<60, 97, 32, 98, 61, 34, 99, 34, 32, 100, 62, 120, 60, 47, 97, 62>>,
   <<60, 97, 47, 62>>, <<60, 33, 91, 67, 68, 65, 84, 65, 91, 97, 93, 93, 62>>,
   <<60, 33, 100, 111, 99, 116, 121, 112, 101, 32, 97, 62>>,
   <<60, 115, 99, 114, 105, 112, 116, 62, 97, 38, 97, 109, 112, 59, 60, 47, 98, 62, 60, 47, 115, 99, 114, 105, 112, 116, 62>>,
   <<60, 116, 105, 116, 108, 101, 62, 97, 38, 97, 109, 112, 59, 98, 60, 47, 116, 105, 116, 108, 101, 62>>,
   <<60, 115, 118, 103, 58, 116, 105, 116, 108, 101, 62, 97, 60, 47, 115, 118, 103, 58, 116, 105, 116, 108, 101, 62>>,
   <<60, 49, 116, 97, 103, 62>>, <<60, 97, 32, 98, 58, 62, 120>>,
   <<97, 32, 38, 35, 54, 53, 59, 32, 38, 35, 120, 52, 49, 59, 32, 98>>,
   <<123, 123, 97, 32, 34, 125, 125, 34, 32, 98, 125, 125, 99>>,
   <<60, 97, 32, 98, 61, 34, 123, 123, 99, 125, 125, 32, 100, 34, 62>>,
   <<97, 32, 123, 123, 98>>, <<60, 97, 32, 98, 61, 39, 99, 39, 47, 62, 120>>,
   <<97, 0, 98>>, <<60, 97, 32, 32, 98, 32, 61, 32, 99, 32, 62>>,
   <<32, 60, 97, 10, 47, 62, 32>>,
   <<60, 33, 45, 45, 32, 104, 105, 32, 45, 45, 62>>,
   <<38, 115, 117, 112, 50, 59>>,
   <<38, 97, 59>>,
   <<38, 97, 49, 59>>,
   <<38, 35, 120, 49, 70, 54, 48, 48, 59>>,
   <<38, 35, 49, 50, 56, 53, 49, 50, 59>>,
   <<38, 35, 54, 53, 59>>,
   <<38, 35, 120, 52, 49, 59>>,
   <<38, 35, 120, 49, 49, 48, 48, 48, 48, 59>>,
   <<38, 35, 49, 49, 49, 52, 49, 49, 50, 59>>,
   <<38, 35, 54, 53>>,
   <<97, 32, 38, 35, 120, 52, 49, 32, 98>>,
   <<123, 123, 97>>,
   <<123, 123, 97, 92>>,
   <<123, 123, 97, 92, 98>>,
   <<123, 123, 34, 125, 125>>,
   <<123, 123, 32, 97, 32, 92>>,
   <<60, 97, 32, 98, 61, 34, 99>>,
   <<60, 97, 32, 98, 61, 39, 99, 62>>,
   <<60, 97, 32, 98>>,
   <<60, 97, 32, 98, 61>>,
   <<60, 115, 99, 114, 105, 112, 116, 62, 97, 38, 97, 109, 112, 59, 123, 123, 120, 125, 125, 60, 120, 62, 60, 47, 98, 62, 60, 47, 83, 67, 82, 73, 80, 84, 62, 99>>,
   <<60, 115, 116, 121, 108, 101, 62, 97, 60, 47, 115, 116, 121, 108, 101, 32, 62, 60, 47, 115, 116, 121, 108, 101, 62>>,
   <<60, 115, 118, 103, 58, 115, 99, 114, 105, 112, 116, 62, 97, 60, 47, 115, 99, 114, 105, 112, 116, 62>>,
   <<60, 115, 99, 114, 105, 112, 116, 62, 97, 60, 47, 32, 115, 99, 114, 105, 112, 116, 62>>,
   <<60, 115, 99, 114, 105, 112, 116, 32, 97, 61, 34, 98, 34, 62, 99, 60, 47, 115, 99, 114, 105, 112, 116, 62, 60, 112, 62>>,
   <<60, 116, 101, 120, 116, 97, 114, 101, 97, 62, 97, 32, 38, 32, 98, 60, 47, 116, 101, 120, 116, 97, 114, 101, 97, 62>>,
   <<60, 116, 105, 116, 108, 101, 62, 38, 122, 122, 59, 123, 123, 120, 125, 125, 60, 47, 116, 105, 116, 108, 101, 62>>,
   <<60, 116, 105, 116, 108, 101, 62, 123, 123, 120, 125, 125, 60, 98, 62, 38, 108, 116, 59, 60, 47, 98, 62, 38, 35, 54, 53, 59, 60, 47, 116, 105, 116, 108, 101, 62>>,
   <<60, 116, 101, 120, 116, 97, 114, 101, 97, 62, 38, 97, 109, 112, 59, 38, 108, 116, 59, 60, 47, 116, 101, 120, 116, 97, 114, 101, 97, 62>>,
   <<60, 116, 105, 116, 108, 101, 62, 97, 38, 115, 117, 112, 50, 59, 60, 47, 116, 105, 116, 108, 101, 62>>,
   <<97, 123, 98, 125, 99>>,
   <<123, 97, 44, 32, 98, 44, 32, 61, 48, 32, 123, 120, 125, 125>>,
   <<125, 32, 123>>,
   <<123, 123, 32, 34, 125, 125, 34, 32, 125, 125, 120>>,
   <<123, 123, 32, 39, 125, 125, 39, 32, 43, 32, 34, 125, 125, 34, 32, 125, 125>>,
   <<123, 123, 32, 34, 97, 92, 34, 125, 125, 34, 32, 125, 125>>,
   <<123, 123, 32, 39, 97, 34, 125, 125, 39, 32, 125, 125>>,
   <<123, 123, 97, 92, 125, 125, 98, 125, 125>>,
   <<123, 123, 32, 97, 32, 47, 47, 32, 98, 32, 125, 125, 32, 99>>,
   <<123, 123, 32, 97, 32, 47, 47, 32, 39, 98, 32, 125, 125, 32, 99, 39, 32, 125, 125>>,
   <<123, 123, 32, 34, 47, 47, 34, 32, 125, 125>>,
   <<123, 123, 32, 34, 97, 32, 125, 125, 32, 98>>,
   <<123, 123, 97, 47, 47, 125, 125, 98, 125, 125>>,
   <<123, 123, 97, 60, 98, 62, 99, 125, 125>>,
   <<123, 123, 32, 34, 120, 60, 98, 62, 34, 32, 125, 125>>,
   <<123, 123, 97, 60, 47, 98, 62, 125, 125>>,
   <<123, 123, 97, 60, 33, 45, 45, 98, 45, 45, 62, 125, 125>>,
   <<123, 123, 97, 60, 32, 98, 125, 125>>,
   <<123, 123, 97, 60>>,
   <<123, 123, 97, 60, 47>>,
   <<123, 123, 97, 60, 98>>,
   <<97, 32, 38, 98, 32, 99>>,
   <<97, 38, 38, 98>>,
   <<60, 97, 32, 98, 61, 34, 120, 38, 121, 32, 122, 34, 62>>,
   <<60, 97, 32, 98, 61, 38, 121, 62>>,
   <<60, 97, 32, 98, 61, 34, 38, 120>>,
   <<60, 116, 101, 120, 116, 97, 114, 101, 97, 62, 38, 120>>,
   <<97, 32, 38, 97, 109, 112, 32, 98, 13, 10, 38>>,
   <<60, 116, 105, 116, 108, 101, 62, 97, 38, 98, 60, 47, 116, 105, 116, 108, 101, 62>>,
   <<60, 97, 58, 62>>,
   <<120, 60, 97, 58, 32, 98, 62, 99>>,
   <<60, 97, 58>>,
   <<60, 58, 97, 62>>,
   <<97, 32, 60, 32, 98>>,
   <<60, 115, 118, 103, 58, 62, 120>>,
   <<60, 97, 32, 98, 61, 34, 120, 38, 121, 32, 122, 34, 62, 99, 38, 100>>,
   <<60, 97, 32, 34, 62>>,
   <<60, 33, 45, 120>>}

\* the pieces of ICU expansion forms
\*   `{` `}` `,` `a` ` ` `=0` `{{` `}}` `<` `\r\n`
ExpansionFragments ==
  {<<123>>, <<125>>, <<44>>, <<97>>, <<32>>, <<61, 48>>, <<123, 123>>, <<125, 125>>,
   <<60>>, <<13, 10>>}

\* whole expansion forms
\*   `{a, b, =0 {x}}` `{a, b, =0 {x} =1 {<b>y</b>}}` `{a, b, =0 {{c, d, =1 {x}}}}`
\*   `{a\r\n, b\r\n, =0 {x}}` `a {{b}} }`
\*   `{count, plural, =0 {none} other {some}}`
\*   `}{a, b, =0 {x}}`
\*   `{a, b, =0 {x`
\*   `{a, b, =0 {x} `
\*   `{a, b, =0 {x {c, d, =1 {y}`
\*   `{a, b, =0 {<!-x}}`
\*   `{a`
\*   `{a, b, =0 {x} =1`
\*   `{a, b, =0 {&zz;} =1 {<a "}}`
\*   `<!-x`
ExpansionScenarios ==
  {<<123, 97, 44, 32, 98, 44, 32, 61, 48, 32, 123, 120, 125, 125>>,
   <<123, 97, 44, 32, 98, 44, 32, 61, 48, 32, 123, 120, 125, 32, 61, 49, 32, 123, 60, 98, 62, 121, 60, 47, 98, 62, 125, 125>>,
   <<123, 97, 44, 32, 98, 44, 32, 61, 48, 32, 123, 123, 99, 44, 32, 100, 44, 32, 61, 49, 32, 123, 120, 125, 125, 125, 125>>,
   <<123, 97, 13, 10, 44, 32, 98, 13, 10, 44, 32, 61, 48, 32, 123, 120, 125, 125>>,
   <<97, 32, 123, 123, 98, 125, 125, 32, 125>>,
   <<123, 99, 111, 117, 110, 116, 44, 32, 112, 108, 117, 114, 97, 108, 44, 32, 61, 48, 32, 123, 110, 111, 110, 101, 125, 32, 111, 116, 104, 101, 114, 32, 123, 115, 111, 109, 101, 125, 125>>,
   <<125, 123, 97, 44, 32, 98, 44, 32, 61, 48, 32, 123, 120, 125, 125>>,
   <<123, 97, 44, 32, 98, 44, 32, 61, 48, 32, 123, 120>>,
   <<123, 97, 44, 32, 98, 44, 32, 61, 48, 32, 123, 120, 125, 32>>,
   <<123, 97, 44, 32, 98, 44, 32, 61, 48, 32, 123, 120, 32, 123, 99, 44, 32, 100, 44, 32, 61, 49, 32, 123, 121, 125>>,
   <<123, 97, 44, 32, 98, 44, 32, 61, 48, 32, 123, 60, 33, 45, 120, 125, 125>>,
   <<123, 97>>,
   <<123, 97, 44, 32, 98, 44, 32, 61, 48, 32, 123, 120, 125, 32, 61, 49>>,
   <<123, 97, 44, 32, 98, 44, 32, 61, 48, 32, 123, 38, 122, 122, 59, 125, 32, 61, 49, 32, 123, 60, 97, 32, 34, 125, 125>>,
   <<60, 33, 45, 120>>}

\* expansion forms in the text of a string literal
\*   `{a, b, =0 {\x41}}` `{a, b, =0 {x} \xzz}` `{a, b, =0 { \xzz}}` `{a, b, =0 {x}} \xzz`
EscapedExpansionScenarios ==
  {<<123, 97, 44, 32, 98, 44, 32, 61, 48, 32, 123, 92, 120, 52, 49, 125, 125>>,
   <<123, 97, 44, 32, 98, 44, 32, 61, 48, 32, 123, 120, 125, 32, 92, 120, 122, 122, 125>>,
   <<123, 97, 44, 32, 98, 44, 32, 61, 48, 32, 123, 32, 92, 120, 122, 122, 125, 125>>,
   <<123, 97, 44, 32, 98, 44, 32, 61, 48, 32, 123, 120, 125, 125, 32, 92, 120, 122, 122>>}

\* the pieces of string-literal contents, with their escape sequences
\*   `\` `n` `u` `x` `{` `}` `0` `41` `110000` `a` `\n` `\r` `<` `7` `-1`
EscapeFragments ==
  {<<92>>, <<110>>, <<117>>, <<120>>, <<123>>, <<125>>, <<48>>, <<52, 49>>,
   <<49, 49, 48, 48, 48, 48>>, <<97>>, <<10>>, <<13>>, <<60>>, <<55>>, <<45, 49>>}

\* whole string-literal contents
\*   `\u0041b` `\x41b` `\u{41}b` `<a b="\x3e">` `\101\0\7777` `a\\nb` `a\\r\nb` `\u00zz`
\*   `\u{110000}` `a\` `{{\x7d}}` `\x-1`
\*   `a<\xzz`
\*   `<!\xzz`
\*   `a\x4zb`
\*   `\u{4z}b`
\*   `\u{}b`
\*   `a\xzzb`
\*   `\u12g4`
\*   `a\\n\n`
\*   `a\\n\x41`
\*   `a\\rb`
\*   `a\\r\n`
\*   `a\\r\x41`
\*   `a\\r\n\n`
\*   `a\\r\n\x41`
\*   `a\nb`
EscapeScenarios ==
  {<<92, 117, 48, 48, 52, 49, 98>>, <<92, 120, 52, 49, 98>>,
   <<92, 117, 123, 52, 49, 125, 98>>,
   <<60, 97, 32, 98, 61, 34, 92, 120, 51, 101, 34, 62>>,
   <<92, 49, 48, 49, 92, 48, 92, 55, 55, 55, 55>>, <<97, 92, 10, 98>>,
   <<97, 92, 13, 10, 98>>, <<92, 117, 48, 48, 122, 122>>,
   <<92, 117, 123, 49, 49, 48, 48, 48, 48, 125>>, <<97, 92>>,
   <<123, 123, 92, 120, 55, 100, 125, 125>>, <<92, 120, 45, 49>>,
   <<97, 60, 92, 120, 122, 122>>,
   <<60, 33, 92, 120, 122, 122>>,
   <<97, 92, 120, 52, 122, 98>>,
   <<92, 117, 123, 52, 122, 125, 98>>,
   <<92, 117, 123, 125, 98>>,
   <<97, 92, 120, 122, 122, 98>>,
   <<92, 117, 49, 50, 103, 52>>,
   <<97, 92, 10, 92, 110>>,
   <<97, 92, 10, 92, 120, 52, 49>>,
   <<97, 92, 13, 98>>,
   <<97, 92, 13, 92, 110>>,
   <<97, 92, 13, 92, 120, 52, 49>>,
   <<97, 92, 13, 10, 92, 110>>,
   <<97, 92, 13, 10, 92, 120, 52, 49>>,
   <<97, 92, 110, 98>>}

\* the pieces of markup with whitespace around the tokens
\*   ` ` `\n` `a` `<a` `>` `</a>` `{{` `}}`
TriviaFragments ==
  {<<32>>, <<10>>, <<97>>, <<60, 97>>, <<62>>, <<60, 47, 97, 62>>, <<123, 123>>,
   <<125, 125>>}

\* whole documents with whitespace around the tokens
\*   ` <a b="c"> x </a> ` `\n {{x}} \n`
TriviaScenarios ==
  {<<32, 60, 97, 32, 98, 61, 34, 99, 34, 62, 32, 120, 32, 60, 47, 97, 62, 32>>,
   <<10, 32, 123, 123, 120, 125, 125, 32, 10>>}

\* the pieces of markup with carriage returns
\*   `\r` `\n` `a` `<!--` `-->` `{{` `}}` `<a b="` `">`
LineEndingFragments ==
  {<<13>>, <<10>>, <<97>>, <<60, 33, 45, 45>>, <<45, 45, 62>>, <<123, 123>>,
   <<125, 125>>, <<60, 97, 32, 98, 61, 34>>, <<34, 62>>}

\* whole documents with carriage returns
\*   `a\r\nb\rc` `<!--a\r\nb-->` `<a b="c\r\nd">`
\*   `<script>a\r\nb</script>`
\*   `<title>a\r\nb&amp;\rc</title>`
\*   `<a b="x\r\ny{{c\rd}}e\r">`
\*   `<![CDATA[a\r\nb\r]]>`
\*   `{{a\r\nb}}c\rd`
\*   `<textarea>a\r\nb&amp;\r</textarea>`
\*   `a\r&\nb`
\*   `a&#\rb\r\n`
\*   `<a b=c\r>d\r{{e`
LineEndingScenarios ==
  {<<97, 13, 10, 98, 13, 99>>, <<60, 33, 45, 45, 97, 13, 10, 98, 45, 45, 62>>,
   <<60, 97, 32, 98, 61, 34, 99, 13, 10, 100, 34, 62>>,
   <<60, 115, 99, 114, 105, 112, 116, 62, 97, 13, 10, 98, 60, 47, 115, 99, 114, 105, 112, 116, 62>>,
   <<60, 116, 105, 116, 108, 101, 62, 97, 13, 10, 98, 38, 97, 109, 112, 59, 13, 99, 60, 47, 116, 105, 116, 108, 101, 62>>,
   <<60, 97, 32, 98, 61, 34, 120, 13, 10, 121, 123, 123, 99, 13, 100, 125, 125, 101, 13, 34, 62>>,
   <<60, 33, 91, 67, 68, 65, 84, 65, 91, 97, 13, 10, 98, 13, 93, 93, 62>>,
   <<123, 123, 97, 13, 10, 98, 125, 125, 99, 13, 100>>,
   <<60, 116, 101, 120, 116, 97, 114, 101, 97, 62, 97, 13, 10, 98, 38, 97, 109, 112, 59, 13, 60, 47, 116, 101, 120, 116, 97, 114, 101, 97, 62>>,
   <<97, 13, 38, 10, 98>>,
   <<97, 38, 35, 13, 98, 13, 10>>,
   <<60, 97, 32, 98, 61, 99, 13, 62, 100, 13, 123, 123, 101>>}

RECURSIVE Texts(_, _)
\* the texts made of at most n fragments
Texts(fragments, n) ==
  IF n = 0 THEN {<<>>}
  ELSE LET shorter == Texts(fragments, n - 1)
       IN shorter \cup {s \o f : s \in shorter, f \in fragments}

\* the options a caller passes with the texts it passes them with
Configurations ==
  {[options |-> {DefaultOptions},
    texts |-> Texts(MarkupFragments, MaxFragments) \cup MarkupScenarios],
   [options |-> {[DefaultOptions EXCEPT !.tokenizeExpansionForms = TRUE],
                 [DefaultOptions EXCEPT !.tokenizeExpansionForms = TRUE,
                                        !.i18nNormalizeLineEndingsInICUs = TRUE]},
    texts |-> Texts(ExpansionFragments, MaxFragments) \cup ExpansionScenarios],
   [options |-> {[DefaultOptions EXCEPT !.escapedString = TRUE]},
    texts |-> Texts(EscapeFragments, MaxFragments) \cup EscapeScenarios],
   [options |-> {[DefaultOptions EXCEPT !.escapedString = TRUE,
                                        !.tokenizeExpansionForms = TRUE]},
    texts |-> EscapedExpansionScenarios],
   [options |-> {[DefaultOptions EXCEPT !.leadingTriviaChars = {chars_LF, 32 (* $SPACE *)}]},
    texts |-> Texts(TriviaFragments, MaxFragments) \cup TriviaScenarios],
   [options |-> {DefaultOptions, [DefaultOptions EXCEPT !.preserveLineEndings = TRUE]},
    texts |-> Texts(LineEndingFragments, MaxFragments) \cup LineEndingScenarios]}

\* options.range: the part of the text between its first and its last character
inner(text) ==
  [endPos |-> Len(text) - 1, startPos |-> 1, startLine |-> 0, startCol |-> 1]

Constructed(t) ==
  /\ cursor = t.cursor
  /\ currentTokenStart = t.currentTokenStart
  /\ currentTokenType = t.currentTokenType
  /\ expansionCaseStack = t.expansionCaseStack
  /\ inInterpolation = t.inInterpolation
  /\ tokens = t.tokens
  /\ errors = t.errors
  /\ nonNormalizedIcuExpressions = t.nonNormalizedIcuExpressions
  /\ exception = t.exc
  /\ raised = t.raised
  /\ recovered = t.recovered
  /\ calls = t.calls
  /\ start = t.cursor
  /\ pc = IF Throwing(t) THEN "thrown" ELSE "loop"

Init ==
  /\ \E c \in Configurations :
       /\ input \in c.texts
       /\ \E o \in c.options :
            options \in {o} \cup (IF o = DefaultOptions /\ input \in MarkupScenarios
                                  THEN {[o EXCEPT !.range = inner(input)]} ELSE {})
                            \cup (IF o.tokenizeExpansionForms /\ input \in ExpansionScenarios
                                  THEN {[o EXCEPT !.preserveLineEndings = TRUE]} ELSE {})
  /\ Constructed(call("newTokenizer", input, <<options>>))
  /\ result = <<>>
  /\ handler = ""

\* control goes on from the statement that ran
Goes(s) ==
  /\ Becomes(s.t)
  /\ pc' = s.pc
  /\ handler' = pc
  /\ UNCHANGED <<input, options, result>>

\* the statement at a position runs
Run(position) ==
  /\ pc = position
  /\ Goes(call("statement", Self, <<position, start>>))

\* the head of the loop: the clone of the cursor, then the chain of attempts
Dispatch ==
  /\ cursor.state.peek # chars_EOF
  /\ start' = cursor
  /\ Run("loop")

\* the loop ends: the EOF token
EndOfFile ==
  /\ cursor.state.peek = chars_EOF
  /\ UNCHANGED start
  /\ Run("loop")

ConsumeCdata == Run("_consumeCdata") /\ UNCHANGED start

ConsumeComment == Run("_consumeComment") /\ UNCHANGED start

ConsumeDocType == Run("_consumeDocType") /\ UNCHANGED start

ConsumeTagClose == Run("_consumeTagClose") /\ UNCHANGED start

ConsumeTagOpen == Run("_consumeTagOpen") /\ UNCHANGED start

TokenizeExpansionForm == Run("_tokenizeExpansionForm") /\ UNCHANGED start

ConsumeWithInterpolation == Run("_consumeWithInterpolation") /\ UNCHANGED start

\* tokenize() merges the text tokens and returns
ReturnResult ==
  /\ pc = "eof"
  /\ result' = mergeTextTokens(tokens)
  /\ pc' = "done"
  /\ handler' = "mergeTextTokens"
  /\ UNCHANGED <<input, options, cursor, currentTokenStart, currentTokenType,
                 expansionCaseStack, inInterpolation, tokens, errors,
                 nonNormalizedIcuExpressions, start, exception, raised, recovered,
                 calls>>

Next ==
  \/ Dispatch
  \/ ConsumeCdata
  \/ ConsumeComment
  \/ ConsumeDocType
  \/ ConsumeTagClose
  \/ ConsumeTagOpen
  \/ TokenizeExpansionForm
  \/ ConsumeWithInterpolation
  \/ EndOfFile
  \/ ReturnResult

Spec == Init /\ [][Next]_vars

(***************************************************************************)
(* What the properties below speak of.                                     *)
(***************************************************************************)
Last(seq) == seq[Len(seq)]

\* the end of the range the run scans
rangeEnd == rangeOf(input, options).endPos

\* the types of a token list, in order
types(list) == [i \in 1..Len(list) |-> list[i].type]

\* C1: tokenize() terminates: whenever control comes back to the head of the
\* driver loop, after any handler and after any captured failure, the cursor
\* stands strictly after the place where the iteration started, and never
\* beyond the end of the scanned range, so the loop runs at most once per
\* character of the input.
IterationAdvances ==
  [][pc' = "loop" => /\ start'.state.offset < cursor'.state.offset
                     /\ cursor'.state.offset <= rangeEnd]_vars

\* an iteration has come back to the head of the loop after a captured failure in an
\* open tag, and input is left
AdvancedPastFailure ==
  /\ pc = "loop"
  /\ handler = "_consumeTagOpen"
  /\ raised > 0
  /\ recovered > 0
  /\ cursor.state.peek # chars_EOF

\* C2: no exception leaves tokenize(), in plain mode and in escaped mode.
NeverThrows == pc # "thrown"

\* C3: the returned token list is not empty, its last token is an EOF token
\* with no parts and a zero-width span at the end of the scanned range, and no
\* earlier token is an EOF token.
EndsWithEOF ==
  pc = "done" =>
    /\ Len(result) > 0
    /\ Last(result).type = "EOF"
    /\ Last(result).parts = <<>>
    /\ Last(result).sourceSpan.start.offset = rangeEnd
    /\ Last(result).sourceSpan.end.offset = rangeEnd
    /\ \A i \in 1..(Len(result) - 1) : result[i].type # "EOF"

spanText(token) ==
  substring(input, token.sourceSpan.start.offset, token.sourceSpan.end.offset)

RECURSIVE spansText(_, _)
\* the source texts the spans of list[i], list[i + 1], ... cover, concatenated
spansText(list, i) ==
  IF i > Len(list) THEN <<>> ELSE spanText(list[i]) \o spansText(list, i + 1)

contains(text, piece) ==
  \E i \in 1..(Len(text) - Len(piece) + 1) : SubSeq(text, i, i + Len(piece) - 1) = piece

\* the part of the source the run is to scan
rangeStart == rangeOf(input, options).startPos

scanned == substring(input, rangeStart, rangeEnd)

\* the input has no entity, no interpolation and no escape sequence
PlainMarkup ==
  /\ ~options.escapedString
  /\ ~contains(input, <<chars_AMPERSAND>>)
  /\ ~contains(input, options.interpolationConfig.start)

\* the run has met no scan failure
WellFormed == raised = 0

\* modulo the normalization of line endings, when it is enabled
normalized(text) == IF options.preserveLineEndings THEN text ELSE replaceCrOrCrLf(text, 1)

\* the offset is under the span of a token of the list
covered(list, offset) ==
  \E k \in 1..Len(list) : /\ list[k].sourceSpan.start.offset <= offset
                          /\ offset < list[k].sourceSpan.end.offset

\* the offsets of the scanned source before the last token (the EOF token) that
\* are under no span
between(list) ==
  {o \in rangeStart .. (Last(list).sourceSpan.start.offset - 1) : ~covered(list, o)}

RECURSIVE without(_, _, _)
\* the characters of text from offset o on, those at the given offsets left out
without(text, offsets, o) ==
  IF o >= Len(text) THEN <<>>
  ELSE (IF o \in offsets THEN <<>> ELSE <<text[o + 1]>>) \o without(text, offsets, o + 1)

\* what stands between the tokens of a tag or of an expansion form
separators ==
  {32 (* $SPACE *), chars_TAB, chars_LF, chars_VTAB, chars_FF, chars_CR,
   chars_EQ, chars_SLASH, chars_COMMA}

\* C5 as stated: for well-formed input without entities, interpolation and
\* escapes, the source texts under the spans of the returned tokens,
\* concatenated, are the source that was to be scanned (modulo the
\* normalization of line endings).
SpansReproduceSource ==
  (pc = "done" /\ WellFormed /\ PlainMarkup) =>
     normalized(spansText(result, 1)) = normalized(scanned)

\* C5, amended: for well-formed input without entities, interpolation and
\* escapes, the source texts under the spans of the returned tokens,
\* concatenated, are the source scanned up to the EOF token with the characters
\* under no span left out, and those characters are whitespace, `=`, `/` or `,`.
SpansReproduceSourceButSeparators ==
  (pc = "done" /\ WellFormed /\ PlainMarkup) =>
     /\ spansText(result, 1) =
          without(substring(input, 0, Last(result).sourceSpan.start.offset),
                  between(result) \cup 0..(rangeStart - 1), 0)
     /\ \A o \in between(result) : input[o + 1] \in separators

\* a well-formed tag with an assigned attribute value has been tokenized, and
\* characters of it are under no span
SeparatorsDropped ==
  /\ pc = "done"
  /\ WellFormed
  /\ PlainMarkup
  /\ between(result) # {}
  /\ \E i \in 1..Len(result) : result[i].type = "ATTR_VALUE_TEXT"

\* tokenize() of the text put together from the spans of the returned tokens;
\* the text is scanned as a whole
again == tokenize(spansText(result, 1), [options EXCEPT !.range = null])

monotone(list) ==
  \A i \in 1..(Len(list) - 1) :
     /\ list[i + 1].sourceSpan.start.offset >= list[i].sourceSpan.start.offset
     /\ list[i + 1].sourceSpan.start.offset >= list[i].sourceSpan.end.offset

\* C7: the spans of consecutive tokens never go backwards, in the list as it
\* is emitted and in the list returned after the merge pass, also after
\* backtracking and after captured errors.
SpansMonotone == monotone(tokens) /\ monotone(result)

\* a run that captured a failure has returned a list the merge pass shortened
MergedAfterFailure ==
  /\ pc = "done"
  /\ raised > 0
  /\ Len(errors) > 0
  /\ Len(result) < Len(tokens)
  /\ Len(result) >= 3

\* fullStart <= start <= end for every span of the list, with nothing but
\* leading trivia between fullStart and start
trimmed(list) ==
  \A i \in 1..Len(list) :
     LET span == list[i].sourceSpan
     IN /\ span.fullStart.offset <= span.start.offset
        /\ span.start.offset <= span.end.offset
        /\ \A o \in span.fullStart.offset .. (span.start.offset - 1) :
              input[o + 1] \in options.leadingTriviaChars
        /\ options.leadingTriviaChars = {} => span.fullStart = span.start

\* C8: every span has fullStart <= start <= end; what lies between fullStart
\* and start is leading trivia, and without leading trivia configured fullStart
\* is start.
SpansTrimmed == trimmed(tokens) /\ trimmed(result)

\* a token of nothing but leading trivia has been trimmed up to its end
TrimmedToEnd ==
  /\ pc = "done"
  /\ \E i \in 1..Len(result) :
        /\ result[i].sourceSpan.fullStart.offset < result[i].sourceSpan.start.offset
        /\ result[i].sourceSpan.start.offset = result[i].sourceSpan.end.offset

\* `<p>a &amp; b</p>`
Paragraph == <<60, 112, 62, 97, 32, 38, 97, 109, 112, 59, 32, 98, 60, 47, 112, 62>>

\* C9: the returned list has no two TEXT tokens and no two ATTR_VALUE_TEXT
\* tokens next to each other, and `<p>a &amp; b</p>` gives one TEXT token
\* before and one after the ENCODED_ENTITY token, whose decoded part is `&`.
TextMerged ==
  pc = "done" =>
     /\ \A i \in 1..(Len(result) - 1) :
           /\ ~(result[i].type = "TEXT" /\ result[i + 1].type = "TEXT")
           /\ ~(result[i].type = "ATTR_VALUE_TEXT" /\ result[i + 1].type = "ATTR_VALUE_TEXT")
     /\ (input = Paragraph /\ options = DefaultOptions) =>
           /\ types(result) = <<"TAG_OPEN_START", "TAG_OPEN_END", "TEXT", "ENCODED_ENTITY",
                                "TEXT", "TAG_CLOSE", "EOF">>
           /\ result[3].parts = << <<97, 32>> >>
           /\ result[4].parts = << <<chars_AMPERSAND>>, <<38, 97, 109, 112, 59>> >>
           /\ result[5].parts = << <<32, 98>> >>

\* the merge pass has made one text token of several
TextTokensMerged ==
  /\ pc = "done"
  /\ Len(result) < Len(tokens)
  /\ \E i \in 1..Len(result) : result[i].type = "TEXT" /\ Len(result[i].parts[1]) > 1

\* `<div class="a">{{x}}</div>`
Division ==
  <<60, 100, 105, 118, 32, 99, 108, 97, 115, 115, 61, 34, 97, 34, 62, 123, 123, 120, 125,
    125, 60, 47, 100, 105, 118, 62>>

\* C10 as stated: with the default options `<div class="a">{{x}}</div>` gives
\* the INTERPOLATION token with the parts `{{`, `x`, `}}` directly between
\* TAG_OPEN_END and TAG_CLOSE.
InterpolationBetweenTags ==
  (pc = "done" /\ input = Division /\ options = DefaultOptions) =>
     /\ types(result) = <<"TAG_OPEN_START", "ATTR_NAME", "ATTR_QUOTE", "ATTR_VALUE_TEXT",
                          "ATTR_QUOTE", "TAG_OPEN_END", "INTERPOLATION", "TAG_CLOSE", "EOF">>
     /\ result[7].parts = << <<123, 123>>, <<120>>, <<125, 125>> >>

\* C10, amended: with the default options `<div class="a">{{x}}</div>` gives
\* the INTERPOLATION token with the parts `{{`, `x`, `}}` between two TEXT
\* tokens whose text is empty, which stand between TAG_OPEN_END and TAG_CLOSE.
InterpolationBetweenEmptyTexts ==
  (pc = "done" /\ input = Division /\ options = DefaultOptions) =>
     /\ types(result) = <<"TAG_OPEN_START", "ATTR_NAME", "ATTR_QUOTE", "ATTR_VALUE_TEXT",
                          "ATTR_QUOTE", "TAG_OPEN_END", "TEXT", "INTERPOLATION", "TEXT",
                          "TAG_CLOSE", "EOF">>
     /\ result[7].parts = << <<>> >>
     /\ result[8].parts = << <<123, 123>>, <<120>>, <<125, 125>> >>
     /\ result[9].parts = << <<>> >>

\* tokenize() has returned for `<div class="a">{{x}}</div>`
DivisionTokenized ==
  /\ pc = "done"
  /\ input = Division
  /\ options = DefaultOptions
  /\ \E i \in 1..Len(result) : result[i].type = "INTERPOLATION"

\* `<1tag>`
DigitTag == <<60, 49, 116, 97, 103, 62>>

Plural ==
  <<123, 99, 111, 117, 110, 116, 44, 32, 112, 108, 117, 114, 97, 108, 44, 32, 61, 48, 32,
    123, 110, 111, 110, 101, 125, 32, 111, 116, 104, 101, 114, 32, 123, 115, 111, 109,
    101, 125, 125>>

\* how many tokens of the list have the type
count(list, type) == Cardinality({i \in 1..Len(list) : list[i].type = type})

\* C12: with ICU tokenizing enabled `{count, plural, =0 {none} other {some}}`
\* gives EXPANSION_FORM_START, RAW_TEXT count, RAW_TEXT plural, for each of
\* the two cases EXPANSION_CASE_VALUE, EXPANSION_CASE_EXP_START, TEXT,
\* EXPANSION_CASE_EXP_END, then EXPANSION_FORM_END and EOF; the start and end
\* tokens are balanced, the stack is empty at EOF and there is no diagnostic.
PluralTokens ==
  (pc = "done" /\ input = Plural /\ options.tokenizeExpansionForms) =>
     /\ types(result) =
          <<"EXPANSION_FORM_START", "RAW_TEXT", "RAW_TEXT",
            "EXPANSION_CASE_VALUE", "EXPANSION_CASE_EXP_START", "TEXT", "EXPANSION_CASE_EXP_END",
            "EXPANSION_CASE_VALUE", "EXPANSION_CASE_EXP_START", "TEXT", "EXPANSION_CASE_EXP_END",
            "EXPANSION_FORM_END", "EOF">>
     /\ result[2].parts = << <<99, 111, 117, 110, 116>> >>
     /\ result[3].parts = << <<112, 108, 117, 114, 97, 108>> >>
     /\ result[4].parts = << <<61, 48>> >>
     /\ result[6].parts = << <<110, 111, 110, 101>> >>
     /\ result[8].parts = << <<111, 116, 104, 101, 114>> >>
     /\ result[10].parts = << <<115, 111, 109, 101>> >>
     /\ count(result, "EXPANSION_FORM_START") = count(result, "EXPANSION_FORM_END")
     /\ count(result, "EXPANSION_CASE_EXP_START") = count(result, "EXPANSION_CASE_EXP_END")
     /\ expansionCaseStack = <<>>
     /\ errors = <<>>
     /\ raised = 0

\* tokenize() has returned for the plural form, cases and form closed
PluralTokenized ==
  /\ pc = "done"
  /\ input = Plural
  /\ options.tokenizeExpansionForms
  /\ count(result, "EXPANSION_CASE_EXP_END") = 2

\* `<!-- hi -->`
Comment == <<60, 33, 45, 45, 32, 104, 105, 32, 45, 45, 62>>

\* `-->`
commentEnd == <<45, 45, 62>>

\* the text before the first occurrence of the piece in it
upTo(text, piece) ==
  LET first == CHOOSE i \in 1..(Len(text) - Len(piece) + 1) :
                  /\ SubSeq(text, i, i + Len(piece) - 1) = piece
                  /\ \A j \in 1..(i - 1) : SubSeq(text, j, j + Len(piece) - 1) # piece
  IN SubSeq(text, 1, first - 1)

\* what follows the token in the scanned source
after(token) == substring(input, token.sourceSpan.end.offset, rangeEnd)

\* every terminated comment of the returned list is COMMENT_START, one RAW_TEXT
\* token over the body up to the first `-->`, whose part is the body as
\* text(body) gives it, and COMMENT_END
comments(text(_)) ==
  \A i \in 1..Len(result) :
     (result[i].type = "COMMENT_START" /\ contains(after(result[i]), commentEnd)) =>
        /\ i + 2 <= Len(result)
        /\ result[i].parts = <<>>
        /\ result[i + 1].type = "RAW_TEXT"
        /\ spanText(result[i + 1]) = upTo(after(result[i]), commentEnd)
        /\ result[i + 1].parts = << text(upTo(after(result[i]), commentEnd)) >>
        /\ result[i + 2].type = "COMMENT_END"
        /\ result[i + 2].parts = <<>>
        /\ spanText(result[i + 2]) = commentEnd

\* `<!-- hi -->` gives COMMENT_START, RAW_TEXT ` hi `, COMMENT_END, EOF and no
\* diagnostic
commentScenario ==
  (input = Comment /\ options = DefaultOptions) =>
     /\ types(result) = <<"COMMENT_START", "RAW_TEXT", "COMMENT_END", "EOF">>
     /\ result[2].parts = << <<32, 104, 105, 32>> >>
     /\ errors = <<>>
     /\ raised = 0

verbatim(text) == text

\* C13 as stated: a terminated comment gives COMMENT_START, one RAW_TEXT token
\* whose part is the body verbatim, up to the first `-->`, and COMMENT_END;
\* `<!-- hi -->` gives these and EOF, with RAW_TEXT ` hi `, and no diagnostic.
\* (With escapedString the source is the text of a string literal, not the
\* characters of the comment, and is left aside here.)
CommentBodyVerbatim ==
  (pc = "done" /\ ~options.escapedString) => comments(verbatim) /\ commentScenario

\* C13, amended: as stated, but the part of the RAW_TEXT token is the body with
\* every CR and CRLF replaced by LF, unless preserveLineEndings is set.
CommentBodyNormalized ==
  (pc = "done" /\ ~options.escapedString) => comments(normalized) /\ commentScenario

\* a comment with a CRLF in its body has been tokenized
CommentWithCarriageReturn ==
  /\ pc = "done"
  /\ ~options.escapedString
  /\ \E i \in 1..(Len(result) - 2) :
        /\ result[i].type = "COMMENT_START"
        /\ result[i + 2].type = "COMMENT_END"
        /\ contains(spanText(result[i + 1]), <<chars_CR>>)

\* the code is the code of a letter or of a digit
isAlphanumeric(code) == isAsciiLetter(code) \/ isDigit(code)

\* the name of the input, when the input is `&name;` with a name of letters and
\* digits, else the empty string
entityName ==
  IF /\ Len(input) >= 3
     /\ input[1] = chars_AMPERSAND
     /\ Last(input) = chars_SEMICOLON
     /\ \A i \in 2..(Len(input) - 1) : isAlphanumeric(input[i])
  THEN SubSeq(input, 2, Len(input) - 1)
  ELSE <<>>

\* C14: for every name of the entity table, of letters or of digits, `&name;`
\* in text gives an ENCODED_ENTITY token with the parts [the value of the
\* table, `&name;`]; for a name that is not in the table `&name;` gives a
\* diagnostic and no ENCODED_ENTITY token.
NamedEntityDecoded ==
  (pc = "done" /\ options = DefaultOptions /\ entityName # <<>>) =>
     IF entityName \in DOMAIN NAMED_ENTITIES
     THEN \E i \in 1..Len(result) :
             /\ result[i].type = "ENCODED_ENTITY"
             /\ result[i].parts = <<NAMED_ENTITIES[entityName], input>>
     ELSE /\ Len(errors) > 0
          /\ count(result, "ENCODED_ENTITY") = 0

\* the digits of the input, when the input is `&#NNN;` with decimal digits, else
\* the empty string
decimalDigits ==
  IF /\ Len(input) >= 4
     /\ SubSeq(input, 1, 2) = <<chars_AMPERSAND, chars_HASH>>
     /\ Last(input) = chars_SEMICOLON
     /\ \A i \in 3..(Len(input) - 1) : isDigit(input[i])
  THEN SubSeq(input, 3, Len(input) - 1)
  ELSE <<>>

\* the digits of the input, when the input is `&#xHH;` with hexadecimal digits,
\* else the empty string
hexDigits ==
  IF /\ Len(input) >= 5
     /\ SubSeq(input, 1, 2) = <<chars_AMPERSAND, chars_HASH>>
     /\ input[3] \in {chars_x, chars_X}
     /\ Last(input) = chars_SEMICOLON
     /\ \A i \in 4..(Len(input) - 1) : isAsciiHexDigit(input[i])
  THEN SubSeq(input, 4, Len(input) - 1)
  ELSE <<>>

\* the number the reference of the input stands for, -1 when the input is no
\* numeric reference
referenced ==
  IF decimalDigits # <<>> THEN parseDigits(decimalDigits, 1, 10, 0, FALSE).val
  ELSE IF hexDigits # <<>> THEN parseDigits(hexDigits, 1, 16, 0, FALSE).val
  ELSE 0 - 1

\* C15: for every decimal reference `&#NNN;` and every hexadecimal reference
\* `&#xHH;` of a code point up to the greatest one, also above 0xFFFF, the
\* first part of the ENCODED_ENTITY token is the character with this code point.
NumericEntityDecoded ==
  (pc = "done" /\ options = DefaultOptions /\ referenced >= 0 /\ fromCodePoint(referenced).ok) =>
     \E i \in 1..Len(result) :
        /\ result[i].type = "ENCODED_ENTITY"
        /\ result[i].parts = <<fromCodePoint(referenced).str, input>>

\* C16: in text, a numeric reference that is out of range, or one without the
\* `;` that ends it, gives a diagnostic and no ENCODED_ENTITY token.
NumericEntityRejected ==
  (/\ pc = "done"
   /\ options = DefaultOptions
   /\ \/ referenced >= 0 /\ ~fromCodePoint(referenced).ok
      \/ /\ contains(input, <<chars_AMPERSAND, chars_HASH>>)
         /\ ~contains(input, <<chars_SEMICOLON>>)
         /\ ~contains(input, <<chars_LT>>)) =>
     /\ Len(errors) > 0
     /\ count(result, "ENCODED_ENTITY") = 0

\* the text after the start marker of an interpolation that opens the input
expression == SubSeq(input, 3, Len(input))

\* the input opens an interpolation that nothing ends: no end marker, no tag
\* start and no carriage return follows the start marker
Unterminated ==
  /\ Len(input) >= 2
  /\ SubSeq(input, 1, 2) = DEFAULT_INTERPOLATION_CONFIG.start
  /\ ~contains(expression, DEFAULT_INTERPOLATION_CONFIG.end)
  /\ ~contains(expression, <<chars_LT>>)
  /\ ~contains(expression, <<chars_CR>>)

\* C17: a text that is an unterminated interpolation, whatever follows the
\* start marker (a trailing backslash included), gives a single INTERPOLATION
\* token whose parts are the start marker and everything after it up to the
\* end of the input, without an end marker.
UnterminatedInterpolationEmitted ==
  (pc = "done" /\ options = DefaultOptions /\ Unterminated) =>
     /\ count(result, "INTERPOLATION") = 1
     /\ \E i \in 1..Len(result) :
          /\ result[i].type = "INTERPOLATION"
          /\ result[i].parts = <<DEFAULT_INTERPOLATION_CONFIG.start, expression>>

\* the step is a run of _consumeTagOpen that has emitted the token of the open
\* tag, at the index given, and has failed before the token that ends the tag
failedAfter(opened) ==
  /\ pc = "_consumeTagOpen"
  /\ raised' > raised
  /\ Len(tokens') >= opened
  /\ opened = Len(tokens) + 1
  /\ tokens'[opened].type \in {"TAG_OPEN_START", "INCOMPLETE_TAG_OPEN"}
  /\ \A i \in opened..Len(tokens') :
       tokens'[i].type \notin {"TAG_OPEN_END", "TAG_OPEN_END_VOID"}

\* C18: when the scan of an open tag fails after its TAG_OPEN_START token is
\* emitted and before the token that ends the tag, whatever the failure (an
\* unexpected character, or the end of the input, as inside a quoted attribute
\* value), the token is kept and has the type INCOMPLETE_TAG_OPEN.
IncompleteTagOpenOnFailure ==
  [][failedAfter(Len(tokens) + 1) =>
       tokens'[Len(tokens) + 1].type = "INCOMPLETE_TAG_OPEN"]_vars

\* the source text a token stands for, its leading trivia included
fullText(token) ==
  substring(input, token.sourceSpan.fullStart.offset, token.sourceSpan.end.offset)

\* the index in the returned list of the TAG_OPEN_START token of the open tag
\* that the TAG_OPEN_END token at index i ends, 0 if there is none
opener(i) ==
  LET starts == {j \in 1..(i - 1) : result[j].type = "TAG_OPEN_START"}
  IN IF result[i].type = "TAG_OPEN_END" /\ starts # {}
     THEN CHOOSE j \in starts : \A k \in starts : k <= j
     ELSE 0

\* text[i..e] is a close tag of the name, compared without regard to case:
\* `</name>`, and when spaced also with whitespace after `</` and before `>`
closeTag(text, i, e, name, spaced) ==
  /\ i + Len(name) + 2 <= e
  /\ e <= Len(text)
  /\ text[i] = chars_LT
  /\ text[i + 1] = chars_SLASH
  /\ text[e] = chars_GT
  /\ spaced \/ e = i + Len(name) + 2
  /\ \E a \in (i + 2)..(e - Len(name)) :
        /\ \A j \in (i + 2)..(a - 1) : isWhitespace(text[j])
        /\ toLowerCase(SubSeq(text, a, a + Len(name) - 1)) = toLowerCase(name)
        /\ \A j \in (a + Len(name))..(e - 1) : isWhitespace(text[j])

\* the places <<i, e>> of the close tags of the name in the text
closeTags(text, name, spaced) ==
  {p \in (1..Len(text)) \X (1..Len(text)) : closeTag(text, p[1], p[2], name, spaced)}

\* the place of the first of them
firstCloseTag(text, name, spaced) ==
  CHOOSE p \in closeTags(text, name, spaced) :
     \A q \in closeTags(text, name, spaced) : p[1] <= q[1]

\* the element whose open tag ends with the token at index i has its close tag,
\* and its body is tokenized as the list of types says: every token of the list
\* stands for its piece of the body, the body as text(_) gives it is the parts
\* of the list joined, and the TAG_CLOSE token that follows stands for the
\* close tag and carries the prefix and the name of the open tag
bodyOf(i, spaced, text(_)) ==
  LET open == result[opener(i)]
      rest == after(result[i])
      close == firstCloseTag(rest, open.parts[2], spaced)
      body == SubSeq(rest, 1, close[1] - 1)
  IN /\ i + 2 <= Len(result)
     /\ result[i + 1].type = "RAW_TEXT"
     /\ fullText(result[i + 1]) = body
     /\ result[i + 1].parts = << text(body) >>
     /\ result[i + 2].type = "TAG_CLOSE"
     /\ result[i + 2].parts = open.parts
     /\ fullText(result[i + 2]) = SubSeq(rest, close[1], close[2])

\* the token at index i ends the open tag of a raw text element that has its
\* close tag
rawTextElement(i, spaced) ==
  /\ opener(i) # 0
  /\ getContentType(result[opener(i)].parts[2], result[opener(i)].parts[1]) = "RAW_TEXT"
  /\ closeTags(after(result[i]), result[opener(i)].parts[2], spaced) # {}

\* C19 as stated: the body of a raw text element is one RAW_TEXT token that
\* holds the body verbatim up to the first `</name>` whose name is the name of
\* the open tag, compared without regard to case; nothing of the body becomes
\* another token, and the close tag is consumed into a TAG_CLOSE token that
\* carries the prefix and the name of the open tag.  (With escapedString the
\* source is the text of a string literal and is left aside here.)
RawTextBodyVerbatim ==
  (pc = "done" /\ ~options.escapedString) =>
     \A i \in 1..Len(result) : rawTextElement(i, FALSE) => bodyOf(i, FALSE, verbatim)

\* C19, amended: as stated, but the part of the RAW_TEXT token is the body with
\* every CR and CRLF replaced by LF, unless preserveLineEndings is set, and the
\* close tag that ends the body may have whitespace after `</` and before `>`.
RawTextBodyNormalized ==
  (pc = "done" /\ ~options.escapedString) =>
     \A i \in 1..Len(result) : rawTextElement(i, TRUE) => bodyOf(i, TRUE, normalized)

\* a raw text element has been tokenized whose body has an entity, an
\* interpolation and a tag in it and whose close tag is in upper case
RawTextElementTokenized ==
  /\ pc = "done"
  /\ ~options.escapedString
  /\ \E i \in 1..(Len(result) - 2) :
        /\ rawTextElement(i, TRUE)
        /\ contains(fullText(result[i + 1]), <<chars_AMPERSAND>>)
        /\ contains(fullText(result[i + 1]), DEFAULT_INTERPOLATION_CONFIG.start)
        /\ contains(fullText(result[i + 1]), <<chars_LT>>)
        /\ result[i + 2].type = "TAG_CLOSE"
        /\ contains(fullText(result[i + 2]), <<83, 67, 82, 73, 80, 84>>)

\* the token at index i ends the open tag of an escapable raw text element that
\* has its close tag
escapableRawTextElement(i) ==
  /\ opener(i) # 0
  /\ getContentType(result[opener(i)].parts[2], result[opener(i)].parts[1]) = "ESCAPABLE_RAW_TEXT"
  /\ closeTags(after(result[i]), result[opener(i)].parts[2], TRUE) # {}

\* the offset in the source where the body ends that follows the token at index i
bodyEnd(i) ==
  result[i].sourceSpan.end.offset
    + firstCloseTag(after(result[i]), result[opener(i)].parts[2], TRUE)[1] - 1

\* the tokens after the token at index i are, up to the TAG_CLOSE token for the
\* close tag, ESCAPABLE_RAW_TEXT and ENCODED_ENTITY tokens in turn, the first and
\* the last of them ESCAPABLE_RAW_TEXT
alternates(i) ==
  \E k \in (i + 2)..Len(result) :
     /\ result[k].type = "TAG_CLOSE"
     /\ result[k].sourceSpan.fullStart.offset = bodyEnd(i)
     /\ (k - i) % 2 = 0
     /\ \A j \in (i + 1)..(k - 1) :
          result[j].type = IF (j - i) % 2 = 1 THEN "ESCAPABLE_RAW_TEXT" ELSE "ENCODED_ENTITY"
     /\ \A j \in (i + 1)..(k - 1) :
          result[j].type = "ENCODED_ENTITY" => result[j].parts[2] = fullText(result[j])

\* C20: the body of an escapable raw text element, up to the matching close
\* tag, gives only ESCAPABLE_RAW_TEXT and ENCODED_ENTITY tokens, in turn,
\* the first and the last ESCAPABLE_RAW_TEXT: the character references are
\* decoded into ENCODED_ENTITY tokens, interpolation markers and nested tags
\* stay text.  (With escapedString the source is the text of a string literal
\* and is left aside here.)
EscapableRawTextAlternates ==
  (pc = "done" /\ ~options.escapedString) =>
     \A i \in 1..Len(result) : escapableRawTextElement(i) => alternates(i)

\* the top of the nesting stack, "" when the stack is empty
top == IF expansionCaseStack = <<>> THEN "" ELSE Last(expansionCaseStack)

\* the step emits one token, of the type, and pops the nesting stack
closes(type) ==
  /\ Len(tokens') = Len(tokens) + 1
  /\ SubSeq(tokens', 1, Len(tokens)) = tokens
  /\ Last(tokens').type = type
  /\ Last(tokens').parts = <<>>
  /\ expansionCaseStack' = SubSeq(expansionCaseStack, 1, Len(expansionCaseStack) - 1)
  /\ pc' = "loop"

\* the step emits at least one token, and the first is a TEXT token whose
\* text begins with the character under the cursor
scansAsText ==
  /\ Len(tokens') > Len(tokens)
  /\ tokens'[Len(tokens) + 1].type = "TEXT"
  /\ tokens'[Len(tokens) + 1].parts[1] # <<>>
  /\ Head(tokens'[Len(tokens) + 1].parts[1]) = cursor.state.peek
  /\ expansionCaseStack' = expansionCaseStack

\* C21: with ICU tokenizing enabled, a `}` met at the dispatch of the driver
\* emits EXPANSION_CASE_EXP_END and pops the nesting stack when the top of the
\* stack is an open case, emits EXPANSION_FORM_END and pops when the top is an
\* open form, and is handed to the text scan, which puts it in a TEXT token,
\* when the stack is empty; so a case is closed only when it is the top of the
\* stack, never while a form nested in it is still open.
RBraceDispatched ==
  [][/\ (pc = "_tokenizeExpansionForm" /\ cursor.state.peek = chars_RBRACE) =>
          CASE top = "EXPANSION_CASE_EXP_START" -> closes("EXPANSION_CASE_EXP_END")
            [] top = "EXPANSION_FORM_START" -> closes("EXPANSION_FORM_END")
            [] top = "" -> /\ pc' = "_consumeWithInterpolation"
                           /\ UNCHANGED <<tokens, expansionCaseStack, cursor, errors>>
     /\ (/\ pc = "_consumeWithInterpolation"
         /\ options.tokenizeExpansionForms
         /\ cursor.state.peek = chars_RBRACE
         /\ raised' = raised) => top = "" /\ scansAsText
     /\ (Len(tokens') > Len(tokens) /\ Last(tokens').type = "EXPANSION_CASE_EXP_END") =>
          top = "EXPANSION_CASE_EXP_START"]_vars

\* the tokens of the list, as a set
members(list) == {list[i] : i \in 1..Len(list)}

\* the indices of the condition tokens: the RAW_TEXT token emitted right after
\* an EXPANSION_FORM_START token
conditions ==
  {i \in 2..Len(tokens) : tokens[i].type = "RAW_TEXT" /\ tokens[i - 1].type = "EXPANSION_FORM_START"}

\* what the claim says of the conditions, text(_) being the normalization
icuConditions(text(_)) ==
  /\ \A i \in conditions :
       IF options.i18nNormalizeLineEndingsInICUs
       THEN tokens[i].parts = << text(spanText(tokens[i])) >>
       ELSE /\ tokens[i].parts = << spanText(tokens[i]) >>
            /\ tokens[i] \in members(nonNormalizedIcuExpressions)
                 <=> text(spanText(tokens[i])) # spanText(tokens[i])
  /\ options.i18nNormalizeLineEndingsInICUs => nonNormalizedIcuExpressions = <<>>
  /\ members(nonNormalizedIcuExpressions) \subseteq members(tokens)
  /\ Len(nonNormalizedIcuExpressions) = Cardinality(members(nonNormalizedIcuExpressions))

\* every CR and CRLF of the text replaced by LF
lineFeeds(text) == replaceCrOrCrLf(text, 1)

\* C22 as stated: with i18nNormalizeLineEndingsInICUs the condition token of an
\* ICU expansion carries the text with every CR and CRLF replaced by LF and
\* nothing is recorded; without it the token carries the original text and is
\* added to nonNormalizedIcuExpressions exactly when the replacement changes the
\* text; every recorded token is a token of the list.
ConditionNormalizedOrRecorded ==
  options.tokenizeExpansionForms => icuConditions(lineFeeds)

\* C22, amended: as stated, the normalization being the replacement of every CR
\* and CRLF by LF unless preserveLineEndings is set, and the identity when it
\* is set: then the token carries the original text and nothing is recorded.
ConditionProcessedOrRecorded ==
  options.tokenizeExpansionForms => icuConditions(normalized)

\* a condition with a CRLF in it has been recorded, and the run is over
ConditionRecorded ==
  /\ pc = "done"
  /\ nonNormalizedIcuExpressions # <<>>
  /\ contains(nonNormalizedIcuExpressions[1].parts[1], <<chars_CR>>)

\* the types of the tokens of ICU expansions
ExpansionTypes ==
  {"EXPANSION_FORM_START", "EXPANSION_FORM_END", "EXPANSION_CASE_VALUE",
   "EXPANSION_CASE_EXP_START", "EXPANSION_CASE_EXP_END"}

\* the scanned source is text with a brace in it: no tag, no entity and no
\* interpolation marker
TextWithBraces ==
  /\ ~options.escapedString
  /\ contains(scanned, <<chars_LBRACE>>) \/ contains(scanned, <<chars_RBRACE>>)
  /\ ~contains(scanned, <<chars_LT>>)
  /\ ~contains(scanned, <<chars_AMPERSAND>>)
  /\ ~contains(scanned, options.interpolationConfig.start)

\* C23: with ICU tokenizing disabled no token of an expansion is ever emitted,
\* the nesting stack is empty during the whole run, nothing is recorded in
\* nonNormalizedIcuExpressions, and the braces of a text outside interpolation
\* markers are part of its TEXT token.
NoExpansionWhenDisabled ==
  ~options.tokenizeExpansionForms =>
     /\ \A i \in 1..Len(tokens) : tokens[i].type \notin ExpansionTypes
     /\ expansionCaseStack = <<>>
     /\ nonNormalizedIcuExpressions = <<>>
     /\ (pc = "done" /\ TextWithBraces) =>
           /\ types(result) = <<"TEXT", "EOF">>
           /\ result[1].parts = << normalized(scanned) >>

\* the text of an expansion form has been tokenized with ICU tokenizing disabled
ExpansionAsText ==
  /\ pc = "done"
  /\ ~options.tokenizeExpansionForms
  /\ TextWithBraces
  /\ input \in ExpansionScenarios

\* the greatest line and column of the cursor states advance() is applied to
MaxPosition == 1

\* the states a plain cursor over the scanned range can be in at the offset
cursorStates(offset) ==
  {[peek |-> IF offset >= rangeEnd THEN chars_EOF ELSE input[offset + 1],
    offset |-> offset, line |-> l, column |-> c] : l \in 0..MaxPosition, c \in 0..MaxPosition}

\* what the claim says of advance() applied to a plain cursor in the state
advanced(state) ==
  LET r == cursorAdvance(Self, [state |-> state, internalState |-> state])
      landed == r.cur.state
      consumed == input[state.offset + 1]
  IN IF state.offset < rangeEnd
     THEN /\ r.err = ""
          /\ landed.offset = state.offset + 1
          /\ landed.line = IF consumed = chars_LF THEN state.line + 1 ELSE state.line
          /\ landed.column = IF consumed = chars_LF THEN 0
                            ELSE IF consumed = chars_CR THEN state.column
                            ELSE state.column + 1
          /\ landed.peek = IF landed.offset >= rangeEnd THEN chars_EOF
                          ELSE input[landed.offset + 1]
     ELSE /\ r.err # ""
          /\ landed = state

\* C24: advance() of the plain cursor, below the end, moves the offset by one,
\* counts a line and resets the column on LF, leaves both on CR, counts a
\* column on any other character, and leaves in peek the character at the new
\* offset, or EOF at the end; at the end it raises a CursorError and leaves
\* offset, line, column and peek as they are.
PlainAdvance ==
  ~options.escapedString =>
     \A offset \in rangeStart..rangeEnd : \A state \in cursorStates(offset) : advanced(state)

\* the plain cursor has advanced over an LF and a CR to the end of the input
AdvancedOverLineEndings ==
  /\ pc = "done"
  /\ ~options.escapedString
  /\ contains(input, <<chars_CR>>)
  /\ cursor.state.line > 0
  /\ cursor.state.column > 0
  /\ cursor.state.offset = rangeEnd

\* how many calls of the name were made so far
made(name) == Cardinality({i \in 1..Len(calls) : calls[i] = name})

\* how many times the named-entity fallback has emitted the `&` as text
fallbacks ==
  Cardinality({i \in 1..Len(tokens) :
                 /\ tokens[i].type \in {"TEXT", "ATTR_VALUE_TEXT", "ESCAPABLE_RAW_TEXT"}
                 /\ tokens[i].parts = << <<chars_AMPERSAND>> >>
                 /\ tokens[i].sourceSpan.end.offset = tokens[i].sourceSpan.fullStart.offset + 1})

\* the driver is between two iterations, or the run is over
AtBoundary == pc \in {"loop", "eof", "done"}

\* C25 as stated: every token begun with _beginToken is closed by the _endToken
\* that emits it before another is begun and before the run ends: the calls of
\* _beginToken and _endToken alternate over the whole run, on the named-entity
\* fallback and on the paths that raise a scan failure too.
BeginEndAlternate ==
  /\ \A i \in 1..Len(calls) : calls[i] = IF i % 2 = 1 THEN "_beginToken" ELSE "_endToken"
  /\ AtBoundary => made("_beginToken") = made("_endToken")

\* C25, amended: every _endToken directly follows the _beginToken of the token
\* it emits, and no token is in progress between two iterations of the driver
\* or when the run ends; but a token that was begun is not always closed: the
\* named-entity fallback begins its text token in place of the ENCODED_ENTITY
\* token in progress, and a scan failure drops the token in progress, so that
\* the tokens begun and never emitted are one for each fallback and at most
\* one more for each failure raised.
EndFollowsBegin ==
  /\ \A i \in 1..Len(calls) : calls[i] = "_endToken" => i > 1 /\ calls[i - 1] = "_beginToken"
  /\ made("_endToken") = Len(tokens)
  /\ AtBoundary =>
       /\ currentTokenStart = null
       /\ made("_beginToken") - made("_endToken") >= fallbacks
       /\ made("_beginToken") - made("_endToken") <= fallbacks + raised

\* a run is over in which the named-entity fallback has replaced a token in
\* progress and a scan failure has dropped another
TokensAbandoned ==
  /\ pc = "done"
  /\ fallbacks > 0
  /\ raised > 0
  /\ made("_beginToken") - made("_endToken") = fallbacks + raised

\* C26: _endToken is never called while no token is in progress: neither of
\* its two `Programming error` branches is ever taken, also after a captured
\* failure has reset the start and the type of the token in progress to null;
\* and at the start of every iteration of the driver no token is in progress.
EndTokenInProgress ==
  /\ exception # "TokenError"
  /\ pc = "loop" => currentTokenStart = null /\ currentTokenType = "null"

\* the catch block of _consumeTagOpen has begun and ended the text token of its
\* fallback after _createError had reset the token in progress
EndedAfterReset ==
  /\ pc = "loop"
  /\ handler = "_consumeTagOpen"
  /\ recovered > 0
  /\ Len(calls) > 1
  /\ Last(calls) = "_endToken"
  /\ Last(tokens).type = "TEXT"
  /\ Last(tokens).parts = << <<chars_LT>> >>

\* how many entries of the nesting stack are of the type
open(type) ==
  Cardinality({i \in 1..Len(expansionCaseStack) : expansionCaseStack[i] = type})

\* how many tokens of the type are among the first n tokens emitted
emitted(type, n) == Cardinality({i \in 1..n : tokens[i].type = type})

\* C27: between two iterations of the driver, also after a captured failure,
\* the open forms on the nesting stack are as many as the EXPANSION_FORM_START
\* tokens emitted less the EXPANSION_FORM_END tokens emitted, and the open
\* cases as many as the EXPANSION_CASE_EXP_START tokens less the
\* EXPANSION_CASE_EXP_END tokens; so in every prefix of the token list the END
\* tokens of a kind are no more than its START tokens.
StackMatchesTokens ==
  AtBoundary =>
     /\ open("EXPANSION_FORM_START")
          = emitted("EXPANSION_FORM_START", Len(tokens)) - emitted("EXPANSION_FORM_END", Len(tokens))
     /\ open("EXPANSION_CASE_EXP_START")
          = emitted("EXPANSION_CASE_EXP_START", Len(tokens)) - emitted("EXPANSION_CASE_EXP_END", Len(tokens))
     /\ \A n \in 0..Len(tokens) :
          /\ emitted("EXPANSION_FORM_END", n) <= emitted("EXPANSION_FORM_START", n)
          /\ emitted("EXPANSION_CASE_EXP_END", n) <= emitted("EXPANSION_CASE_EXP_START", n)

RECURSIVE endMarker(_, _, _)
\* the index in the text of the first end marker from index i on that is outside
\* any quoted substring, 0 if there is none; inQuote is the quote character of
\* the quoted substring index i is in, 0 outside; in a quoted substring a
\* backslash escapes the character after it
endMarker(text, i, inQuote) ==
  IF i > Len(text) THEN 0
  ELSE IF inQuote = 0 /\ i < Len(text) /\ SubSeq(text, i, i + 1) = DEFAULT_INTERPOLATION_CONFIG.end
  THEN i
  ELSE IF inQuote # 0 /\ text[i] = chars_BACKSLASH THEN endMarker(text, i + 2, inQuote)
  ELSE IF inQuote # 0 /\ text[i] = inQuote THEN endMarker(text, i + 1, 0)
  ELSE IF inQuote = 0 /\ isQuote(text[i]) THEN endMarker(text, i + 1, text[i])
  ELSE endMarker(text, i + 1, inQuote)

RECURSIVE escapesQuoted(_, _, _)
\* every backslash of the text from index i on is in a quoted substring
escapesQuoted(text, i, inQuote) ==
  IF i > Len(text) THEN TRUE
  ELSE IF inQuote = 0 /\ text[i] = chars_BACKSLASH THEN FALSE
  ELSE IF inQuote # 0 /\ text[i] = chars_BACKSLASH THEN escapesQuoted(text, i + 2, inQuote)
  ELSE IF inQuote # 0 /\ text[i] = inQuote THEN escapesQuoted(text, i + 1, 0)
  ELSE IF inQuote = 0 /\ isQuote(text[i]) THEN escapesQuoted(text, i + 1, text[i])
  ELSE escapesQuoted(text, i + 1, inQuote)

\* the input is an interpolation with quoted substrings in its expression, and
\* text after it: the expression has a quote character, no `<`, no comment
\* marker and no carriage return, and no backslash outside its quoted substrings
QuotedInterpolation ==
  /\ options = DefaultOptions
  /\ Len(input) >= 2
  /\ SubSeq(input, 1, 2) = DEFAULT_INTERPOLATION_CONFIG.start
  /\ \E i \in 1..Len(expression) : isQuote(expression[i])
  /\ ~contains(expression, <<chars_LT>>)
  /\ ~contains(expression, <<chars_SLASH, chars_SLASH>>)
  /\ ~contains(expression, <<chars_CR>>)
  /\ ~contains(expression, <<chars_AMPERSAND>>)
  /\ escapesQuoted(expression, 1, 0)
  /\ endMarker(expression, 1, 0) # 0

commentMarker == <<chars_SLASH, chars_SLASH>>

\* the index of the first occurrence of the piece in the text from index i on, 0
\* if there is none
indexOf(text, piece, i) ==
  LET found == {k \in i..(Len(text) - Len(piece) + 1) : SubSeq(text, k, k + Len(piece) - 1) = piece}
  IN IF found = {} THEN 0 ELSE CHOOSE k \in found : \A l \in found : k <= l

\* the index of the first end marker of the expression that begins at least
\* one character behind its first comment marker, 0 if there is none
commented ==
  IF indexOf(expression, commentMarker, 1) = 0 THEN 0
  ELSE indexOf(expression, DEFAULT_INTERPOLATION_CONFIG.end, indexOf(expression, commentMarker, 1) + 3)

\* the input is an interpolation with a comment marker in its expression, outside
\* quotes, and an end marker behind it and none before it: before the comment
\* marker there is no quote character, and the expression has no `<`, no
\* backslash, no `&` and no carriage return
CommentedInterpolation ==
  /\ options = DefaultOptions
  /\ Len(input) >= 2
  /\ SubSeq(input, 1, 2) = DEFAULT_INTERPOLATION_CONFIG.start
  /\ commented # 0
  /\ indexOf(expression, DEFAULT_INTERPOLATION_CONFIG.end, 1) > indexOf(expression, commentMarker, 1)
  /\ \A i \in 1..indexOf(expression, commentMarker, 1) : ~isQuote(expression[i])
  /\ ~contains(expression, <<chars_LT>>)
  /\ ~contains(expression, <<chars_BACKSLASH>>)
  /\ ~contains(expression, <<chars_AMPERSAND>>)
  /\ ~contains(expression, <<chars_CR>>)

\* the interpolation of the input ends with the end marker at the index of the
\* expression
endsAt(k) ==
  /\ Len(result) >= 2
  /\ result[2].type = "INTERPOLATION"
  /\ result[2].parts = <<DEFAULT_INTERPOLATION_CONFIG.start, SubSeq(expression, 1, k - 1),
                         DEFAULT_INTERPOLATION_CONFIG.end>>
  /\ result[2].sourceSpan.end.offset = k + 3

\* C29 as stated: an end marker behind a `//` comment marker of the expression
\* (outside quotes) is ignored: it does not end the interpolation.
CommentedEndMarkerIgnored ==
  (pc = "done" /\ CommentedInterpolation) => ~endsAt(commented)

\* C29, amended: an end marker behind a `//` comment marker of the expression
\* (outside quotes) does end the interpolation; behind the comment marker only
\* the quote characters are ignored, so that an end marker between two of them
\* ends the interpolation too.  (The character right after the comment marker
\* is consumed with it, so the end marker begins at least one character later.)
CommentedEndMarkerEnds ==
  (pc = "done" /\ CommentedInterpolation) => endsAt(commented)

\* an interpolation has been tokenized that has, behind a comment marker, an end
\* marker between two quote characters
QuotesInCommentTokenized ==
  /\ pc = "done"
  /\ CommentedInterpolation
  /\ \E i \in 1..(commented - 1) : \E j \in (commented + 2)..Len(expression) :
        /\ i > indexOf(expression, commentMarker, 1)
        /\ isQuote(expression[i])
        /\ expression[j] = expression[i]

\* the index in the expression of its first `<` that a letter, `/` or `!`
\* follows, 0 if there is none
tagStart ==
  LET found == {i \in 1..(Len(expression) - 1) :
                  /\ expression[i] = chars_LT
                  /\ \/ isAsciiLetter(expression[i + 1])
                     \/ expression[i + 1] \in {chars_SLASH, chars_BANG}}
  IN IF found = {} THEN 0 ELSE CHOOSE i \in found : \A j \in found : i <= j

\* the text of the expression before its first tag start
soFar == SubSeq(expression, 1, tagStart - 1)

\* the input is an interpolation that reaches a tag start before an end
\* marker: before the tag start the expression has no end marker, no
\* backslash, no comment marker, no `&` and no carriage return
TagInInterpolation ==
  /\ options = DefaultOptions
  /\ Len(input) >= 2
  /\ SubSeq(input, 1, 2) = DEFAULT_INTERPOLATION_CONFIG.start
  /\ tagStart # 0
  /\ ~contains(soFar, DEFAULT_INTERPOLATION_CONFIG.end)
  /\ ~contains(soFar, <<chars_BACKSLASH>>)
  /\ ~contains(soFar, commentMarker)
  /\ ~contains(soFar, <<chars_AMPERSAND>>)
  /\ ~contains(soFar, <<chars_CR>>)

\* the positions of the driver at which a tag, a comment, a CDATA section or a
\* document type is scanned
TagHandlers ==
  {"_consumeTagOpen", "_consumeTagClose", "_consumeComment", "_consumeCdata", "_consumeDocType"}

\* the types of the first token each of them emits
TagTypes ==
  {"TAG_OPEN_START", "INCOMPLETE_TAG_OPEN", "TAG_CLOSE", "COMMENT_START", "CDATA_START", "DOC_TYPE"}

\* C30: when the scan of an interpolation in text reaches, before an end
\* marker, a `<` that a letter, `/` or `!` follows, in a quoted substring of
\* the expression too, the INTERPOLATION token ends there with the parts start
\* marker and expression so far, without an end marker; the cursor is left at
\* the `<`; after the TEXT token that closes the text, the tag is scanned from
\* that `<`, and the next token emitted is its first token (a scan that
\* raises an error emits none).
TagStartEndsInterpolation ==
  [][/\ (pc = "_consumeWithInterpolation" /\ TagInInterpolation /\ tokens = <<>>) =>
          /\ types(tokens') = <<"TEXT", "INTERPOLATION", "TEXT">>
          /\ tokens'[2].parts = <<DEFAULT_INTERPOLATION_CONFIG.start, soFar>>
          /\ tokens'[2].sourceSpan.end.offset = tagStart + 1
          /\ tokens'[3].parts = << <<>> >>
          /\ cursor'.state.offset = tagStart + 1
          /\ cursor'.state.peek = chars_LT
          /\ pc' = "loop"
     /\ (pc = "loop" /\ handler = "_consumeWithInterpolation" /\ TagInInterpolation /\ Len(tokens) = 3) =>
          /\ pc' \in TagHandlers
          /\ start'.state.offset = tagStart + 1
     /\ (pc \in TagHandlers /\ TagInInterpolation /\ Len(tokens) = 3 /\ raised' = raised) =>
          /\ Len(tokens') > 3
          /\ tokens'[4].type \in TagTypes
          /\ tokens'[4].sourceSpan.start.offset = tagStart + 1]_vars

\* a tag has been scanned from the `<` that ended an interpolation inside a
\* quoted substring of its expression
TagScannedFromQuotedExpression ==
  /\ TagInInterpolation
  /\ handler \in TagHandlers
  /\ Len(tokens) > 3
  /\ tokens[2].type = "INTERPOLATION"
  /\ \E i \in 1..Len(soFar) : isQuote(soFar[i])
  /\ tokens[4].type = "TAG_OPEN_START"

\* the types of the tokens in which entities are decoded
TextTypes == {"TEXT", "ATTR_VALUE_TEXT", "ESCAPABLE_RAW_TEXT"}

\* the run of letters of the input from the offset on
RECURSIVE letters(_)
letters(offset) ==
  IF offset < Len(input) /\ isAsciiLetter(input[offset + 1])
  THEN <<input[offset + 1]>> \o letters(offset + 1)
  ELSE <<>>

\* at the offset the input has a `&`, then letters, none or some, and then
\* neither a `;` nor, right behind the `&`, the `#` of a numeric reference
unterminatedEntity(offset) ==
  /\ offset < Len(input)
  /\ input[offset + 1] = chars_AMPERSAND
  /\ LET next == offset + 1 + Len(letters(offset + 1))
     IN /\ next >= Len(input) \/ input[next + 1] # chars_SEMICOLON
        /\ offset + 1 >= Len(input) \/ input[offset + 2] # chars_HASH

\* the token spans the offsets from..to of the source
spans(token, from, to) ==
  /\ token.sourceSpan.fullStart.offset = from
  /\ token.sourceSpan.start.offset = from
  /\ token.sourceSpan.end.offset = to

\* the index among the emitted tokens of the token the entity scan emits for
\* the `&` at the offset, when the emitted token k has ended the text before
\* it; 0 if there is none
entityToken(k, offset) ==
  LET found == {j \in (k + 1)..Len(tokens) :
                  /\ spans(tokens[j], offset, offset + 1)
                  /\ \A i \in (k + 1)..(j - 1) : spans(tokens[i], offset, offset)}
  IN IF found = {} THEN 0 ELSE CHOOSE j \in found : \A i \in found : j <= i

\* a text, an attribute value or the body of an escapable raw text element has
\* been scanned up to a `&` at the offset, where emitted token k ends, and the
\* `&` begins no terminated entity
EntityAbandoned(k, offset) ==
  /\ options.range = null
  /\ ~options.escapedString
  /\ options.leadingTriviaChars = {}
  /\ tokens[k].type \in TextTypes
  /\ tokens[k].sourceSpan.end.offset = offset
  /\ ~spans(tokens[k], offset - 1, offset)
  /\ unterminatedEntity(offset)

\* what the scan has emitted for the `&` at the offset: a token of the type of
\* the text with the part `&` on just the `&`, then the text from right behind
\* the `&` on, which begins with the letters (or, where the input ends in an
\* unterminated attribute value or element body, the EOF token)
AmpersandIsText(k, offset) ==
  LET j == entityToken(k, offset)
  IN /\ j # 0
     /\ tokens[j].type = tokens[k].type
     /\ tokens[j].parts = << <<chars_AMPERSAND>> >>
     /\ j < Len(tokens)
     /\ \/ /\ tokens[j + 1].type = tokens[k].type
           /\ tokens[j + 1].sourceSpan.start.offset = offset + 1
           /\ Len(tokens[j + 1].parts[1]) >= Len(letters(offset + 1))
           /\ SubSeq(tokens[j + 1].parts[1], 1, Len(letters(offset + 1))) = letters(offset + 1)
        \/ /\ tokens[j + 1].type = "EOF"
           /\ tokens[k].type # "TEXT"
           /\ Len(errors) > 0

\* the `&` at the offset, with the letters behind it where the merge pass joins
\* tokens of the type and the text went on
reference(k, offset) ==
  IF /\ tokens[k].type # "ESCAPABLE_RAW_TEXT"
     /\ tokens[entityToken(k, offset) + 1].type = tokens[k].type
  THEN <<chars_AMPERSAND>> \o letters(offset + 1)
  ELSE <<chars_AMPERSAND>>

\* the returned list has a token of the type over the `&` at the offset and
\* the letters behind it, whose text has them as the source has them
ReadsAsSource(k, offset) ==
  \E i \in 1..Len(result) :
     /\ result[i].type = tokens[k].type
     /\ result[i].sourceSpan.start.offset <= offset
     /\ result[i].sourceSpan.end.offset >= offset + Len(reference(k, offset))
     /\ contains(result[i].parts[1], reference(k, offset))
     /\ contains(spanText(result[i]), reference(k, offset))

\* C31: where the scan of a text meets a `&` that letters, none or some, and
\* then no `;` follow, it emits no ENCODED_ENTITY token and records no
\* diagnostic at the `&`; it emits a token of the text's type with the part
\* `&` that spans just the `&`, puts the cursor back right behind the `&` and
\* scans the letters as text, so that the merged text reads as the source.
UnterminatedEntityIsText ==
  pc = "done" =>
    \A k \in 1..Len(tokens) : \A offset \in 0..Len(input) :
       EntityAbandoned(k, offset) =>
         /\ \A i \in 1..Len(tokens) :
              tokens[i].type = "ENCODED_ENTITY" => tokens[i].sourceSpan.start.offset # offset
         /\ \A i \in 1..Len(errors) : errors[i].span.start.offset # offset
         /\ AmpersandIsText(k, offset)
         /\ ReadsAsSource(k, offset)

\* an unquoted attribute value with a `&` and letters that no `;` terminates
\* has been tokenized without a diagnostic
AmpersandsTokenized ==
  /\ pc = "done"
  /\ \E k \in 1..Len(tokens) : \E offset \in 0..Len(input) :
        /\ EntityAbandoned(k, offset)
        /\ tokens[k].type = "ATTR_VALUE_TEXT"
        /\ letters(offset + 1) # <<>>
        /\ Len(errors) = 0

\* the step is one of _consumeTagOpen in which the catch block has recovered a
\* failure that was raised before the TAG_OPEN_START token was emitted
TagNotStarted ==
  /\ pc = "_consumeTagOpen"
  /\ recovered' = recovered + 1
  /\ count(tokens', "INCOMPLETE_TAG_OPEN") = count(tokens, "INCOMPLETE_TAG_OPEN")

\* C32: when an open tag cannot be started, the failure being raised before
\* the TAG_OPEN_START token is emitted, right behind the `<` or behind a
\* `prefix:` that no name follows, a TEXT token with the part `<` is emitted
\* whose span covers just the `<`, no TAG_OPEN_START and no
\* INCOMPLETE_TAG_OPEN token is emitted, and the scan goes on right behind the
\* `<`, so that every character behind it is scanned again as text.
TagStartFallback ==
  [][TagNotStarted =>
       /\ Len(tokens') = Len(tokens) + 1
       /\ SubSeq(tokens', 1, Len(tokens)) = tokens
       /\ Last(tokens').type = "TEXT"
       /\ Last(tokens').parts = << <<chars_LT>> >>
       /\ spans(Last(tokens'), start.state.offset, start.state.offset + 1)
       /\ spanText(Last(tokens')) = <<chars_LT>>
       /\ cursor'.state.offset = start.state.offset + 1
       /\ pc' = "loop"]_vars

\* the emitted token i goes on the run of TEXT tokens, or of ATTR_VALUE_TEXT
\* tokens, that the token before it is in
continues(i) ==
  /\ i > 1
  /\ tokens[i].type \in {"TEXT", "ATTR_VALUE_TEXT"}
  /\ tokens[i - 1].type = tokens[i].type

\* the indexes of the emitted tokens that begin a run, or are in none
heads == {i \in 1..Len(tokens) : ~continues(i)}

\* the n-th of them
head(n) == CHOOSE h \in heads : Cardinality({g \in heads : g <= h}) = n

\* the index of the last token of the run that begins at h
runEnd(h) ==
  CHOOSE e \in h..Len(tokens) :
     /\ \A i \in (h + 1)..e : continues(i)
     /\ e = Len(tokens) \/ ~continues(e + 1)

RECURSIVE firstParts(_, _)
\* the first parts of the emitted tokens h..e, concatenated in order
firstParts(h, e) ==
  IF h > e THEN <<>> ELSE tokens[h].parts[1] \o firstParts(h + 1, e)

\* what is to be returned for the run of emitted tokens h..e
joined(h, e) ==
  IF h = e THEN tokens[h]
  ELSE [type |-> tokens[h].type,
        parts |-> <<firstParts(h, e)>>,
        sourceSpan |-> [fullStart |-> tokens[h].sourceSpan.fullStart,
                        start |-> tokens[h].sourceSpan.start,
                        end |-> tokens[e].sourceSpan.end]]

\* C33: the merge pass returns, in the order of the emitted list, one token
\* for each maximal run of consecutive TEXT tokens and of consecutive
\* ATTR_VALUE_TEXT tokens, whose first part is the first parts of the run
\* concatenated in order and whose span goes from the start of the first
\* fragment to the end of the last, and every other token unchanged.
RunsMerged ==
  pc = "done" =>
     /\ Len(result) = Cardinality(heads)
     /\ \A n \in 1..Len(result) : result[n] = joined(head(n), runEnd(head(n)))

\* the merge pass has joined a run of three ATTR_VALUE_TEXT tokens, none of
\* them empty, and behind it a run of TEXT tokens
ThreeFragmentsJoined ==
  /\ pc = "done"
  /\ \E h \in heads :
        /\ runEnd(h) >= h + 2
        /\ tokens[h].type = "ATTR_VALUE_TEXT"
        /\ \A i \in h..runEnd(h) : tokens[i].parts[1] # <<>>
        /\ \E g \in heads : g > h /\ tokens[g].type = "TEXT" /\ runEnd(g) > g

\* C34: in plain mode, without leading trivia, on every input, those with
\* diagnostics too, the first part of every TEXT and every ATTR_VALUE_TEXT
\* token of the returned list is the source text between the start and the
\* end of its span, modulo the normalization of line endings.
TextReadsAsSpan ==
  (pc = "done" /\ ~options.escapedString /\ options.leadingTriviaChars = {}) =>
     \A i \in 1..Len(result) :
        result[i].type \in {"TEXT", "ATTR_VALUE_TEXT"} =>
           result[i].parts[1] = normalized(spanText(result[i]))

\* C35: with ICU tokenizing enabled, when the driver finds the end of the
\* input between two iterations while the nesting stack is not empty, the run
\* ends with the EOF token and records no diagnostic for the open forms and
\* cases: the diagnostics and the stack are as they were before.
OpenExpansionAtEOF ==
  [][(pc = "loop" /\ cursor.state.peek = chars_EOF
        /\ options.tokenizeExpansionForms /\ expansionCaseStack # <<>>) =>
       /\ pc' = "eof"
       /\ Len(tokens') = Len(tokens) + 1
       /\ SubSeq(tokens', 1, Len(tokens)) = tokens
       /\ Last(tokens').type = "EOF"
       /\ errors' = errors
       /\ raised' = raised
       /\ expansionCaseStack' = expansionCaseStack]_vars

\* a run has ended with a case and its form still open, without any diagnostic
EndedInOpenCase ==
  /\ pc = "done"
  /\ options.tokenizeExpansionForms
  /\ Len(expansionCaseStack) >= 2
  /\ top = "EXPANSION_CASE_EXP_START"
  /\ Last(result).type = "EOF"
  /\ errors = <<>>

\* the step records a diagnostic
Diagnosed == Len(errors') = Len(errors) + 1 /\ SubSeq(errors', 1, Len(errors)) = errors

\* the tokenType of the diagnostic the step records is the type of the token
\* that was in progress when the failure was raised, or null: the type left
\* by the step before when the step has begun and ended no token, null when
\* it has ended a token last, and a type when it has begun one last
TokenInProgressRecorded ==
  LET type == Last(errors').tokenType
  IN IF calls' = calls THEN type = currentTokenType
     ELSE IF Last(calls') = "_endToken" THEN type = "null"
     ELSE type # "null"

\* C36 as stated: the message of a diagnostic has the hint about an unescaped
\* `{` whenever the nesting stack is not empty when the failure is raised, in
\* an expansion form and in the body of an expansion case alike, and never
\* when it is empty; its tokenType is the type of the token in progress then,
\* or null.
HintInsideExpansion ==
  [][Diagnosed =>
       /\ Last(errors').hint = (expansionCaseStack' # <<>>)
       /\ TokenInProgressRecorded]_vars

\* C36, amended: the message has the hint whenever the top of the nesting
\* stack is an expansion form when the failure is raised, and never when the
\* stack is empty or its top is an expansion case, the failure being raised
\* in the body of the case; its tokenType is the type of the token in progress
\* then, or null.
HintInsideExpansionForm ==
  [][Diagnosed =>
       /\ Last(errors').hint = (Len(expansionCaseStack') > 0 /\ Last(expansionCaseStack') = "EXPANSION_FORM_START")
       /\ TokenInProgressRecorded]_vars

\* a comment that failed in the body of a case has been recorded without the
\* hint, with the type of the token it had begun
FailedInCaseBody ==
  /\ pc = "loop"
  /\ handler = "_consumeComment"
  /\ top = "EXPANSION_CASE_EXP_START"
  /\ Len(errors) = 1
  /\ ~errors[1].hint
  /\ errors[1].tokenType = "COMMENT_START"

\* the types of the tokens whose parts are texts of the source
LineTypes ==
  {"TEXT", "ATTR_VALUE_TEXT", "INTERPOLATION", "ATTR_VALUE_INTERPOLATION", "RAW_TEXT",
   "ESCAPABLE_RAW_TEXT"}

\* token i of the list is one of these, and not the RAW_TEXT token of the
\* condition or of the type in the header of an expansion form
carriesText(list, i) ==
  /\ list[i].type \in LineTypes
  /\ ~(i > 1 /\ list[i].type = "RAW_TEXT" /\ list[i - 1].type = "EXPANSION_FORM_START")
  /\ ~(i > 2 /\ list[i].type = "RAW_TEXT" /\ list[i - 1].type = "RAW_TEXT"
             /\ list[i - 2].type = "EXPANSION_FORM_START")

RECURSIVE joinedParts(_, _)
\* the parts of the token from the i-th on, concatenated
joinedParts(token, i) ==
  IF i > Len(token.parts) THEN <<>> ELSE token.parts[i] \o joinedParts(token, i + 1)

\* the offset behind the line ending that begins with the CR at the offset
pastLineEnding(offset) ==
  IF offset + 1 < Len(input) /\ input[offset + 2] = chars_LF THEN offset + 2 ELSE offset + 1

\* the parts of the token, up to the line ending that begins with the CR at
\* the offset, are the source from the start of the token up to that line
\* ending, with every CR and CRLF as one LF unless line endings are preserved
readsUpTo(token, offset) ==
  LET source == normalized(substring(input, token.sourceSpan.fullStart.offset, pastLineEnding(offset)))
  IN /\ Len(joinedParts(token, 1)) >= Len(source)
     /\ SubSeq(joinedParts(token, 1), 1, Len(source)) = source

\* C37: unless preserveLineEndings is set, no part of a TEXT, ATTR_VALUE_TEXT,
\* INTERPOLATION, ATTR_VALUE_INTERPOLATION, RAW_TEXT (of a comment, a CDATA
\* section or a raw text element) or ESCAPABLE_RAW_TEXT token of the returned
\* list has a CR, in tokens the merge pass has joined too; every CR and CRLF
\* under the span of such a token is one LF in its parts, while the span keeps
\* the offsets of the source; with preserveLineEndings the parts have the
\* characters of the source unchanged.
LineEndingsNormalized ==
  pc = "done" =>
     /\ ~options.preserveLineEndings =>
          \A i \in 1..Len(result) : carriesText(result, i) =>
             ~contains(joinedParts(result[i], 1), <<chars_CR>>)
     /\ ~options.escapedString =>
          \A k \in 1..Len(tokens) : carriesText(tokens, k) =>
             \A offset \in tokens[k].sourceSpan.fullStart.offset..(tokens[k].sourceSpan.end.offset - 1) :
                input[offset + 1] = chars_CR => readsUpTo(tokens[k], offset)

\* an attribute value with a CRLF in its text and a CR in its interpolation has
\* been tokenized, with the line endings as LF
AttributeLineEndingsNormalized ==
  /\ pc = "done"
  /\ ~options.preserveLineEndings
  /\ \E i \in 1..Len(result) :
        /\ result[i].type = "ATTR_VALUE_TEXT"
        /\ contains(spanText(result[i]), <<chars_CR, chars_LF>>)
        /\ contains(result[i].parts[1], <<chars_LF>>)
  /\ \E i \in 1..Len(result) :
        /\ result[i].type = "ATTR_VALUE_INTERPOLATION"
        /\ contains(spanText(result[i]), <<chars_CR>>)
        /\ contains(result[i].parts[2], <<chars_LF>>)

\* the index in the input of its only backslash, 0 if it has none or several
escapeAt ==
  LET found == {i \in 1..Len(input) : input[i] = chars_BACKSLASH}
  IN IF Cardinality(found) = 1 THEN CHOOSE i \in found : TRUE ELSE 0

\* the indexes in the input of the digits of the hexadecimal escape sequence at
\* escapeAt: two behind `\x`, four behind `\u`, those between the braces of
\* `\u{...}`; {0} when the input has no such sequence or not all of it
hexDigitIndexes ==
  LET e == escapeAt
      closing == {i \in (e + 3)..Len(input) : input[i] = chars_RBRACE}
  IN IF e = 0 \/ e + 1 > Len(input) THEN {0}
     ELSE IF input[e + 1] = chars_x
     THEN IF e + 3 <= Len(input) THEN (e + 2)..(e + 3) ELSE {0}
     ELSE IF input[e + 1] # chars_u \/ e + 2 > Len(input) THEN {0}
     ELSE IF input[e + 2] = chars_LBRACE
     THEN IF closing = {} THEN {0}
          ELSE (e + 3)..((CHOOSE i \in closing : \A j \in closing : i <= j) - 1)
     ELSE IF e + 5 <= Len(input) THEN (e + 2)..(e + 5) ELSE {0}

\* the input has one escape sequence, a hexadecimal one, and it is malformed:
\* one of its digits is no hexadecimal digit, or its braces are empty
MalformedHexEscape ==
  /\ options.escapedString
  /\ hexDigitIndexes # {0}
  /\ \/ hexDigitIndexes = {}
     \/ \E i \in hexDigitIndexes : ~isAsciiHexDigit(input[i])

\* the characters of the parts of the tokens of the list
RECURSIVE partsChars(_, _)
partsChars(list, i) ==
  IF i > Len(list) THEN {}
  ELSE {joinedParts(list[i], 1)[j] : j \in 1..Len(joinedParts(list[i], 1))} \cup partsChars(list, i + 1)

\* C38: with escapedString every malformed hexadecimal escape sequence, `\xHH`,
\* `\uHHHH` or `\u{...}` with a character that is no hexadecimal digit among
\* its digits, or with empty braces, fails with a CursorError that becomes a
\* diagnostic, and no character is decoded from it: the parts of the tokens
\* have characters of the source only.
MalformedEscapeRejected ==
  (pc = "done" /\ MalformedHexEscape) =>
     /\ \E i \in 1..Len(errors) : errors[i].msg = "Invalid hexadecimal escape sequence"
     /\ partsChars(result, 1) \subseteq {input[i] : i \in 1..Len(input)}

\* a line continuation: a backslash and LF, CR or CRLF
continuations ==
  {<<chars_BACKSLASH>> \o newLine : newLine \in {<<chars_LF>>, <<chars_CR>>, <<chars_CR, chars_LF>>}}

\* what may follow it: a letter, the escape `\n`, the escape `\x41`, each with
\* the text it stands for
followers ==
  {[source |-> <<chars_b>>, text |-> <<chars_b>>],
   [source |-> <<chars_BACKSLASH, chars_n>>, text |-> <<chars_LF>>],
   [source |-> <<chars_BACKSLASH, chars_x, 52, 49>>, text |-> <<chars_A>>]}

\* the texts `a`, line continuation, follower, each with the text it stands for
continued ==
  {[source |-> <<chars_a>> \o c \o f.source, text |-> <<chars_a>> \o f.text] :
     c \in continuations, f \in followers}

\* C39: with escapedString a line continuation, a backslash before LF, CR or
\* CRLF, gives no character to any part of a token and adds one to the line
\* counter, and what follows it is decoded as anywhere else, an escape
\* sequence too; the escape `\n` gives an LF to the part and adds nothing to
\* the line counter.
LineContinuationElided ==
  (pc = "done" /\ options = [DefaultOptions EXCEPT !.escapedString = TRUE]) =>
     /\ \A c \in continued :
          input = c.source =>
             /\ types(result) = <<"TEXT", "EOF">>
             /\ result[1].parts = <<c.text>>
             /\ result[2].sourceSpan.start.line = 1
             /\ errors = <<>>
     /\ input = <<chars_a, chars_BACKSLASH, chars_n, chars_b>> =>
          /\ types(result) = <<"TEXT", "EOF">>
          /\ result[1].parts = << <<chars_a, chars_LF, chars_b>> >>
          /\ result[2].sourceSpan.start.line = 0

====
